---- MODULE Spec2Model ----
(***************************************************************************)
(* The arXiv paper store of problem2: the loader (load_data.py) that fans  *)
(* each paper out into detail / category / author / keyword items and     *)
(* batch-writes them, and the five query executors (query_papers.py,      *)
(* api_server.py) that read them back.                                     *)
(*                                                                         *)
(* A Python str is a sequence of one-character strings, so that slicing,   *)
(* lower-casing, tokenising and the byte-wise ordering of sort keys are    *)
(* computed and not assumed.  None is the value NoneVal.                   *)
(***************************************************************************)
EXTENDS Integers, Sequences, FiniteSets

VARIABLES
    papers,        \* the corpus read by load_papers: a sequence of paper records
    pc,            \* position of the loader: "project", "write", "done", "failed"
    idx,           \* index of the next paper of the `for p in papers` loop
    total_papers,  \* main(): total_papers
    counts,        \* main(): counts, the per-variant item counters
    all_items,     \* main(): all_items, the projected items in input order
    bi,            \* main(): i of `for i in range(0, len(all_items), 25)`
    table,         \* the rows of the DynamoDB table
    err,           \* the exception that ended the loader, "none" if none
    batches,       \* history: the slices all_items[i:i+25] handed to put_batch this run
    report,        \* what main() has printed at its end: the summary, or the traceback
    run,           \* history: "first" in the run on the empty table, "later" in a rerun
    first_table,   \* history: the table a completed run left to a rerun, NoTable if none
    q,             \* the query being executed (kind and arguments)
    qpc,           \* position of the query: "idle", "paging", "done"
    qitems,        \* items accumulated by a paginating executor
    qlek,          \* LastEvaluatedKey of the last page, NoKey if none
    qres,          \* the value the executor returned
    kw_text,       \* keyword extractor on its own: the abstract
    kw_k,          \* keyword extractor on its own: k
    kw_out,        \* keyword extractor on its own: the returned list
    kw_pc,         \* keyword extractor on its own: "ready", "done"
    req,           \* api_server: the GET request being handled, NoRequest if none
    resp,          \* api_server: the response sent for it (status, payload)
    log,           \* api_server: the line log_request_stdout printed for it
    store_calls    \* api_server: outcomes of the table.query calls sent for it

loader_vars == <<papers, pc, idx, total_papers, counts, all_items, bi, table, err, run,
                 first_table, batches, report>>
query_vars == <<q, qpc, qitems, qlek, qres>>
kw_vars == <<kw_text, kw_k, kw_out, kw_pc>>
api_vars == <<req, resp, log, store_calls>>
vars == <<loader_vars, query_vars, kw_vars, api_vars>>

-----------------------------------------------------------------------------
(* Bounds of the model.                                                    *)

MaxFrags == 3      \* fragments concatenated into an abstract under SpecKw
MaxK == 3          \* largest k under SpecKw

-----------------------------------------------------------------------------
(* Python strings.                                                         *)

\* The printable ASCII characters in code order, from chr(32); "grave" stands for chr(96).
Ascii == <<
    " ", "!", "\"", "#", "$", "%", "&", "'", "(", ")", "*", "+", ",", "-", ".", "/",
    "0", "1", "2", "3", "4", "5", "6", "7", "8", "9", ":", ";", "<", "=", ">", "?",
    "@", "A", "B", "C", "D", "E", "F", "G", "H", "I", "J", "K", "L", "M", "N", "O",
    "P", "Q", "R", "S", "T", "U", "V", "W", "X", "Y", "Z", "[", "\\", "]", "^", "_",
    "grave", "a", "b", "c", "d", "e", "f", "g", "h", "i", "j", "k", "l", "m", "n", "o",
    "p", "q", "r", "s", "t", "u", "v", "w", "x", "y", "z", "{", "|", "}", "~"
>>

Chars == {Ascii[i] : i \in 1..Len(Ascii)}

OrdTab == [c \in Chars |-> 31 + (CHOOSE i \in 1..Len(Ascii) : Ascii[i] = c)]

HexUpper == <<"0","1","2","3","4","5","6","7","8","9","A","B","C","D","E","F">>

\* n in hexadecimal digits, at least `width` of them.
RECURSIVE HexName(_, _)
HexName(n, width) ==
    IF n = 0 /\ width <= 0 THEN ""
    ELSE HexName(n \div 16, width - 1) \o HexUpper[(n % 16) + 1]

\* A character outside printable ASCII is written as "U+" and its code point in four
\* hexadecimal digits or more: "U+000A" is the line feed, "U+00E9" e with acute.
CodeName(n) == "U+" \o HexName(n, 4)

\* ord(c) of a printable ASCII character, and chr(n) of any code point
Ord(c) == OrdTab[c]
Chr(n) == IF n \in 32..126 THEN Ascii[n - 31] ELSE CodeName(n)

\* None: a value that equals no str and no list of str.  (TLC takes a string for
\* the sequence of its characters, so that <<"None">> would equal the list ['None'];
\* the tab is no character of a str here, which writes it "U+0009".)
NoneVal == <<"\tNone">>

Min(a, b) == IF a < b THEN a ELSE b

\* a < b for str: code-point lexicographic order, as Python and DynamoDB
\* (UTF-8 bytes) order strings.
StrLess(a, b) ==
    LET n == Min(Len(a), Len(b))
        \* Less[i]: a and b agree before position i, and a is below b from there on
        Less[i \in 1..(n + 1)] ==
            IF i > n THEN Len(a) < Len(b)
            ELSE IF a[i] = b[i] THEN Less[i + 1]
            ELSE Ord(a[i]) < Ord(b[i])
    IN  Less[1]

StrLeq(a, b) == a = b \/ StrLess(a, b)

IsUpper(c) == c \in Chars /\ Ord(c) >= 65 /\ Ord(c) <= 90
IsLowerAlpha(c) == c \in Chars /\ Ord(c) >= 97 /\ Ord(c) <= 122
\* the character class [a-zA-Z]
IsAlpha(c) == IsUpper(c) \/ IsLowerAlpha(c)

\* str.lower() of one character, for the characters it changes into one other
\* character (Unicode 14.0, as CPython 3.11 has it): four numbers to a range, first,
\* last, step, offset, mapping every step-th code point n of first..last to n + offset.
LowerRanges == <<
    65,90,1,32,  192,214,1,32,  216,222,1,32,  256,302,2,1,  306,310,2,1,  313,327,2,1,
    330,374,2,1,  376,376,1,-121,  377,381,2,1,  385,385,1,210,  386,388,2,1,
    390,390,1,206,  391,391,1,1,  393,394,1,205,  395,395,1,1,  398,398,1,79,
    399,399,1,202,  400,400,1,203,  401,401,1,1,  403,403,1,205,  404,404,1,207,
    406,406,1,211,  407,407,1,209,  408,408,1,1,  412,412,1,211,  413,413,1,213,
    415,415,1,214,  416,420,2,1,  422,422,1,218,  423,423,1,1,  425,425,1,218,
    428,428,1,1,  430,430,1,218,  431,431,1,1,  433,434,1,217,  435,437,2,1,
    439,439,1,219,  440,440,1,1,  444,444,1,1,  452,452,1,2,  453,453,1,1,  455,455,1,2,
    456,456,1,1,  458,458,1,2,  459,475,2,1,  478,494,2,1,  497,497,1,2,  498,500,2,1,
    502,502,1,-97,  503,503,1,-56,  504,542,2,1,  544,544,1,-130,  546,562,2,1,
    570,570,1,10795,  571,571,1,1,  573,573,1,-163,  574,574,1,10792,  577,577,1,1,
    579,579,1,-195,  580,580,1,69,  581,581,1,71,  582,590,2,1,  880,882,2,1,
    886,886,1,1,  895,895,1,116,  902,902,1,38,  904,906,1,37,  908,908,1,64,
    910,911,1,63,  913,929,1,32,  932,939,1,32,  975,975,1,8,  984,1006,2,1,
    1012,1012,1,-60,  1015,1015,1,1,  1017,1017,1,-7,  1018,1018,1,1,  1021,1023,1,-130,
    1024,1039,1,80,  1040,1071,1,32,  1120,1152,2,1,  1162,1214,2,1,  1216,1216,1,15,
    1217,1229,2,1,  1232,1326,2,1,  1329,1366,1,48,  4256,4293,1,7264,  4295,4295,1,7264,
    4301,4301,1,7264,  5024,5103,1,38864,  5104,5109,1,8,  7312,7354,1,-3008,
    7357,7359,1,-3008,  7680,7828,2,1,  7838,7838,1,-7615,  7840,7934,2,1,
    7944,7951,1,-8,  7960,7965,1,-8,  7976,7983,1,-8,  7992,7999,1,-8,  8008,8013,1,-8,
    8025,8031,2,-8,  8040,8047,1,-8,  8072,8079,1,-8,  8088,8095,1,-8,  8104,8111,1,-8,
    8120,8121,1,-8,  8122,8123,1,-74,  8124,8124,1,-9,  8136,8139,1,-86,  8140,8140,1,-9,
    8152,8153,1,-8,  8154,8155,1,-100,  8168,8169,1,-8,  8170,8171,1,-112,
    8172,8172,1,-7,  8184,8185,1,-128,  8186,8187,1,-126,  8188,8188,1,-9,
    8486,8486,1,-7517,  8490,8490,1,-8383,  8491,8491,1,-8262,  8498,8498,1,28,
    8544,8559,1,16,  8579,8579,1,1,  9398,9423,1,26,  11264,11311,1,48,  11360,11360,1,1,
    11362,11362,1,-10743,  11363,11363,1,-3814,  11364,11364,1,-10727,  11367,11371,2,1,
    11373,11373,1,-10780,  11374,11374,1,-10749,  11375,11375,1,-10783,
    11376,11376,1,-10782,  11378,11378,1,1,  11381,11381,1,1,  11390,11391,1,-10815,
    11392,11490,2,1,  11499,11501,2,1,  11506,11506,1,1,  42560,42604,2,1,
    42624,42650,2,1,  42786,42798,2,1,  42802,42862,2,1,  42873,42875,2,1,
    42877,42877,1,-35332,  42878,42886,2,1,  42891,42891,1,1,  42893,42893,1,-42280,
    42896,42898,2,1,  42902,42920,2,1,  42922,42922,1,-42308,  42923,42923,1,-42319,
    42924,42924,1,-42315,  42925,42925,1,-42305,  42926,42926,1,-42308,
    42928,42928,1,-42258,  42929,42929,1,-42282,  42930,42930,1,-42261,
    42931,42931,1,928,  42932,42946,2,1,  42948,42948,1,-48,  42949,42949,1,-42307,
    42950,42950,1,-35384,  42951,42953,2,1,  42960,42960,1,1,  42966,42968,2,1,
    42997,42997,1,1,  65313,65338,1,32,  66560,66599,1,40,  66736,66771,1,40,
    66928,66938,1,39,  66940,66954,1,39,  66956,66962,1,39,  66964,66965,1,39,
    68736,68786,1,64,  71840,71871,1,32,  93760,93791,1,32,  125184,125217,1,34
>>

\* The case-ignorable characters, as ranges of code points: two numbers to a range,
\* first, last.
CaseIgnorableRanges == <<
    39,39,  46,46,  58,58,  94,94,  96,96,  168,168,  173,173,  175,175,  180,180,
    183,184,  688,879,  884,885,  890,890,  900,901,  903,903,  1155,1161,  1369,1369,
    1375,1375,  1425,1469,  1471,1471,  1473,1474,  1476,1477,  1479,1479,  1524,1524,
    1536,1541,  1552,1562,  1564,1564,  1600,1600,  1611,1631,  1648,1648,  1750,1757,
    1759,1768,  1770,1773,  1807,1807,  1809,1809,  1840,1866,  1958,1968,  2027,2037,
    2042,2042,  2045,2045,  2070,2093,  2137,2139,  2184,2184,  2192,2193,  2200,2207,
    2249,2306,  2362,2362,  2364,2364,  2369,2376,  2381,2381,  2385,2391,  2402,2403,
    2417,2417,  2433,2433,  2492,2492,  2497,2500,  2509,2509,  2530,2531,  2558,2558,
    2561,2562,  2620,2620,  2625,2626,  2631,2632,  2635,2637,  2641,2641,  2672,2673,
    2677,2677,  2689,2690,  2748,2748,  2753,2757,  2759,2760,  2765,2765,  2786,2787,
    2810,2815,  2817,2817,  2876,2876,  2879,2879,  2881,2884,  2893,2893,  2901,2902,
    2914,2915,  2946,2946,  3008,3008,  3021,3021,  3072,3072,  3076,3076,  3132,3132,
    3134,3136,  3142,3144,  3146,3149,  3157,3158,  3170,3171,  3201,3201,  3260,3260,
    3263,3263,  3270,3270,  3276,3277,  3298,3299,  3328,3329,  3387,3388,  3393,3396,
    3405,3405,  3426,3427,  3457,3457,  3530,3530,  3538,3540,  3542,3542,  3633,3633,
    3636,3642,  3654,3662,  3761,3761,  3764,3772,  3782,3782,  3784,3789,  3864,3865,
    3893,3893,  3895,3895,  3897,3897,  3953,3966,  3968,3972,  3974,3975,  3981,3991,
    3993,4028,  4038,4038,  4141,4144,  4146,4151,  4153,4154,  4157,4158,  4184,4185,
    4190,4192,  4209,4212,  4226,4226,  4229,4230,  4237,4237,  4253,4253,  4348,4348,
    4957,4959,  5906,5908,  5938,5939,  5970,5971,  6002,6003,  6068,6069,  6071,6077,
    6086,6086,  6089,6099,  6103,6103,  6109,6109,  6155,6159,  6211,6211,  6277,6278,
    6313,6313,  6432,6434,  6439,6440,  6450,6450,  6457,6459,  6679,6680,  6683,6683,
    6742,6742,  6744,6750,  6752,6752,  6754,6754,  6757,6764,  6771,6780,  6783,6783,
    6823,6823,  6832,6862,  6912,6915,  6964,6964,  6966,6970,  6972,6972,  6978,6978,
    7019,7027,  7040,7041,  7074,7077,  7080,7081,  7083,7085,  7142,7142,  7144,7145,
    7149,7149,  7151,7153,  7212,7219,  7222,7223,  7288,7293,  7376,7378,  7380,7392,
    7394,7400,  7405,7405,  7412,7412,  7416,7417,  7468,7530,  7544,7544,  7579,7679,
    8125,8125,  8127,8129,  8141,8143,  8157,8159,  8173,8175,  8189,8190,  8203,8207,
    8216,8217,  8228,8228,  8231,8231,  8234,8238,  8288,8292,  8294,8303,  8305,8305,
    8319,8319,  8336,8348,  8400,8432,  11388,11389,  11503,11505,  11631,11631,
    11647,11647,  11744,11775,  11823,11823,  12293,12293,  12330,12333,  12337,12341,
    12347,12347,  12441,12446,  12540,12542,  40981,40981,  42232,42237,  42508,42508,
    42607,42610,  42612,42621,  42623,42623,  42652,42655,  42736,42737,  42752,42785,
    42864,42864,  42888,42890,  42994,42996,  43000,43001,  43010,43010,  43014,43014,
    43019,43019,  43045,43046,  43052,43052,  43204,43205,  43232,43249,  43263,43263,
    43302,43309,  43335,43345,  43392,43394,  43443,43443,  43446,43449,  43452,43453,
    43471,43471,  43493,43494,  43561,43566,  43569,43570,  43573,43574,  43587,43587,
    43596,43596,  43632,43632,  43644,43644,  43696,43696,  43698,43700,  43703,43704,
    43710,43711,  43713,43713,  43741,43741,  43756,43757,  43763,43764,  43766,43766,
    43867,43871,  43881,43883,  44005,44005,  44008,44008,  44013,44013,  64286,64286,
    64434,64450,  65024,65039,  65043,65043,  65056,65071,  65106,65106,  65109,65109,
    65279,65279,  65287,65287,  65294,65294,  65306,65306,  65342,65342,  65344,65344,
    65392,65392,  65438,65439,  65507,65507,  65529,65531,  66045,66045,  66272,66272,
    66422,66426,  67456,67461,  67463,67504,  67506,67514,  68097,68099,  68101,68102,
    68108,68111,  68152,68154,  68159,68159,  68325,68326,  68900,68903,  69291,69292,
    69446,69456,  69506,69509,  69633,69633,  69688,69702,  69744,69744,  69747,69748,
    69759,69761,  69811,69814,  69817,69818,  69821,69821,  69826,69826,  69837,69837,
    69888,69890,  69927,69931,  69933,69940,  70003,70003,  70016,70017,  70070,70078,
    70089,70092,  70095,70095,  70191,70193,  70196,70196,  70198,70199,  70206,70206,
    70367,70367,  70371,70378,  70400,70401,  70459,70460,  70464,70464,  70502,70508,
    70512,70516,  70712,70719,  70722,70724,  70726,70726,  70750,70750,  70835,70840,
    70842,70842,  70847,70848,  70850,70851,  71090,71093,  71100,71101,  71103,71104,
    71132,71133,  71219,71226,  71229,71229,  71231,71232,  71339,71339,  71341,71341,
    71344,71349,  71351,71351,  71453,71455,  71458,71461,  71463,71467,  71727,71735,
    71737,71738,  71995,71996,  71998,71998,  72003,72003,  72148,72151,  72154,72155,
    72160,72160,  72193,72202,  72243,72248,  72251,72254,  72263,72263,  72273,72278,
    72281,72283,  72330,72342,  72344,72345,  72752,72758,  72760,72765,  72767,72767,
    72850,72871,  72874,72880,  72882,72883,  72885,72886,  73009,73014,  73018,73018,
    73020,73021,  73023,73029,  73031,73031,  73104,73105,  73109,73109,  73111,73111,
    73459,73460,  78896,78904,  92912,92916,  92976,92982,  92992,92995,  94031,94031,
    94095,94111,  94176,94177,  94179,94180,  110576,110579,  110581,110587,
    110589,110590,  113821,113822,  113824,113827,  118528,118573,  118576,118598,
    119143,119145,  119155,119170,  119173,119179,  119210,119213,  119362,119364,
    121344,121398,  121403,121452,  121461,121461,  121476,121476,  121499,121503,
    121505,121519,  122880,122886,  122888,122904,  122907,122913,  122915,122916,
    122918,122922,  123184,123197,  123566,123566,  123628,123631,  125136,125142,
    125252,125259,  127995,127999,  917505,917505,  917536,917631,  917760,917999
>>

\* The cased characters that are not case-ignorable, as ranges of code points.
CasedRanges == <<
    65,90,  97,122,  170,170,  181,181,  186,186,  192,214,  216,246,  248,442,  444,447,
    452,659,  661,687,  880,883,  886,887,  891,893,  895,895,  902,902,  904,906,
    908,908,  910,929,  931,1013,  1015,1153,  1162,1327,  1329,1366,  1376,1416,
    4256,4293,  4295,4295,  4301,4301,  4304,4346,  4349,4351,  5024,5109,  5112,5117,
    7296,7304,  7312,7354,  7357,7359,  7424,7467,  7531,7543,  7545,7578,  7680,7957,
    7960,7965,  7968,8005,  8008,8013,  8016,8023,  8025,8025,  8027,8027,  8029,8029,
    8031,8061,  8064,8116,  8118,8124,  8126,8126,  8130,8132,  8134,8140,  8144,8147,
    8150,8155,  8160,8172,  8178,8180,  8182,8188,  8450,8450,  8455,8455,  8458,8467,
    8469,8469,  8473,8477,  8484,8484,  8486,8486,  8488,8488,  8490,8493,  8495,8500,
    8505,8505,  8508,8511,  8517,8521,  8526,8526,  8544,8575,  8579,8580,  9398,9449,
    11264,11387,  11390,11492,  11499,11502,  11506,11507,  11520,11557,  11559,11559,
    11565,11565,  42560,42605,  42624,42651,  42786,42863,  42865,42887,  42891,42894,
    42896,42954,  42960,42961,  42963,42963,  42965,42969,  42997,42998,  43002,43002,
    43824,43866,  43872,43880,  43888,43967,  64256,64262,  64275,64279,  65313,65338,
    65345,65370,  66560,66639,  66736,66771,  66776,66811,  66928,66938,  66940,66954,
    66956,66962,  66964,66965,  66967,66977,  66979,66993,  66995,67001,  67003,67004,
    68736,68786,  68800,68850,  71840,71903,  93760,93823,  119808,119892,  119894,119964,
    119966,119967,  119970,119970,  119973,119974,  119977,119980,  119982,119993,
    119995,119995,  119997,120003,  120005,120069,  120071,120074,  120077,120084,
    120086,120092,  120094,120121,  120123,120126,  120128,120132,  120134,120134,
    120138,120144,  120146,120485,  120488,120512,  120514,120538,  120540,120570,
    120572,120596,  120598,120628,  120630,120654,  120656,120686,  120688,120712,
    120714,120744,  120746,120770,  120772,120779,  122624,122633,  122635,122654,
    125184,125251,  127280,127305,  127312,127337,  127344,127369
>>

CodePoints(ranges) ==
    UNION {ranges[2 * i - 1]..ranges[2 * i] : i \in 1..(Len(ranges) \div 2)}
CaseIgnorable == {Chr(n) : n \in CodePoints(CaseIgnorableRanges)}
Cased == {Chr(n) : n \in CodePoints(CasedRanges)}

\* The pairs <<c, c.lower()>> of LowerRanges.
LowerPairs ==
    UNION {{<<Chr(n), Chr(n + r[4])>> : n \in {m \in r[1]..r[2] : (m - r[1]) % r[3] = 0}} :
           r \in {SubSeq(LowerRanges, 4 * i - 3, 4 * i) : i \in 1..(Len(LowerRanges) \div 4)}}

CapitalSigma == Chr(931)
FinalSigma == Chr(962)
SmallSigma == Chr(963)
CapitalIDot == Chr(304)       \* I with dot above: lower() gives i and a combining dot
CombiningDot == Chr(775)

\* c.lower() of a character other than the capital sigma and the I with dot above
LowerChar(c) ==
    IF IsUpper(c) THEN Chr(Ord(c) + 32)
    ELSE IF c \in Chars THEN c
    ELSE LET mapped == {p[2] : p \in {pr \in LowerPairs : pr[1] = c}}
         IN  IF mapped = {} THEN c ELSE CHOOSE d \in mapped : TRUE

\* The capital sigma at s[i] ends a word: the nearest character before it that is not
\* case-ignorable is cased, and the nearest one after it, if there is one, is not.
final_sigma(s, i) ==
    LET before == {j \in 1..(i - 1) : s[j] \notin CaseIgnorable}
        after == {j \in (i + 1)..Len(s) : s[j] \notin CaseIgnorable}
    IN  /\ before # {}
        /\ s[CHOOSE j \in before : \A m \in before : m <= j] \in Cased
        /\ after # {} => s[CHOOSE j \in after : \A m \in after : j <= m] \notin Cased

\* What str.lower() makes of the character at s[i]: one character, or two.
lower_at(s, i) ==
    CASE s[i] = CapitalSigma -> <<IF final_sigma(s, i) THEN FinalSigma ELSE SmallSigma>>
      [] s[i] = CapitalIDot -> <<"i", CombiningDot>>
      [] OTHER -> <<LowerChar(s[i])>>

\* str.lower() of s[i:]
RECURSIVE lower_from(_, _)
lower_from(s, i) == IF i > Len(s) THEN <<>> ELSE lower_at(s, i) \o lower_from(s, i + 1)

\* str.lower()
lower(s) == lower_from(s, 1)

\* s[:n]
Slice(s, n) == SubSeq(s, 1, Min(n, Len(s)))

\* `x or ""` for x a str or None, `x or []` for x a list or None
OrEmpty(x) == IF x = NoneVal THEN <<>> ELSE x

-----------------------------------------------------------------------------
(* load_data.py: keyword extraction.                                       *)

STOPWORDS == {
    <<"t","h","e">>, <<"a">>, <<"a","n">>, <<"a","n","d">>, <<"o","r">>, <<"b","u","t">>,
    <<"i","n">>, <<"o","n">>, <<"a","t">>, <<"t","o">>, <<"f","o","r">>, <<"o","f">>,
    <<"w","i","t","h">>, <<"b","y">>, <<"f","r","o","m">>, <<"u","p">>,
    <<"a","b","o","u","t">>, <<"i","n","t","o">>, <<"t","h","r","o","u","g","h">>,
    <<"d","u","r","i","n","g">>, <<"i","s">>, <<"a","r","e">>, <<"w","a","s">>,
    <<"w","e","r","e">>, <<"b","e">>, <<"b","e","e","n">>, <<"b","e","i","n","g">>,
    <<"h","a","v","e">>, <<"h","a","s">>, <<"h","a","d">>, <<"d","o">>, <<"d","o","e","s">>,
    <<"d","i","d">>, <<"w","i","l","l">>, <<"w","o","u","l","d">>, <<"c","o","u","l","d">>,
    <<"s","h","o","u","l","d">>, <<"m","a","y">>, <<"m","i","g","h","t">>, <<"c","a","n">>,
    <<"t","h","i","s">>, <<"t","h","a","t">>, <<"t","h","e","s","e">>, <<"t","h","o","s","e">>,
    <<"w","e">>, <<"o","u","r">>, <<"u","s","e">>, <<"u","s","i","n","g">>,
    <<"b","a","s","e","d">>, <<"a","p","p","r","o","a","c","h">>, <<"m","e","t","h","o","d">>,
    <<"p","a","p","e","r">>, <<"p","r","o","p","o","s","e">>,
    <<"p","r","o","p","o","s","e","d">>, <<"s","h","o","w">>
}

\* re.findall(r"[a-zA-Z]+", s): the maximal runs of letters of s, left to right.
\* cur is the run being read at position i, acc the runs already closed.
RECURSIVE findall_alpha(_, _, _, _)
findall_alpha(s, i, cur, acc) ==
    IF i > Len(s)
    THEN IF cur = <<>> THEN acc ELSE Append(acc, cur)
    ELSE IF IsAlpha(s[i])
         THEN findall_alpha(s, i + 1, Append(cur, s[i]), acc)
         ELSE findall_alpha(s, i + 1, <<>>, IF cur = <<>> THEN acc ELSE Append(acc, cur))

\* A plausible slip: the text is not lower-cased before tokenising.
tokenize_no_lower(text) ==
    LET tokens == findall_alpha(OrEmpty(text), 1, <<>>, <<>>)
    IN  SelectSeq(tokens, LAMBDA t : t \notin STOPWORDS /\ Len(t) > 2)

tokenize(text) ==
    LET tokens == findall_alpha(lower(OrEmpty(text)), 1, <<>>, <<>>)
    IN  SelectSeq(tokens, LAMBDA t : t \notin STOPWORDS /\ Len(t) > 2)

\* Counter(tokens): the distinct tokens in first-seen order, each with its count.
RECURSIVE Counter(_)
Counter(tokens) ==
    IF tokens = <<>> THEN <<>>
    ELSE LET w == Head(tokens)
             n == Cardinality({i \in 1..Len(tokens) : tokens[i] = w})
         IN  <<[w |-> w, n |-> n]>> \o Counter(SelectSeq(Tail(tokens), LAMBDA t : t # w))

\* Drop the element at position i.
RemoveAt(s, i) == SubSeq(s, 1, i - 1) \o SubSeq(s, i + 1, Len(s))

\* A plausible slip: least frequent first.
RECURSIVE most_common_ascending(_, _)
most_common_ascending(cnt, k) ==
    IF k <= 0 \/ cnt = <<>> THEN <<>>
    ELSE LET i == CHOOSE j \in 1..Len(cnt) :
                      /\ \A m \in 1..Len(cnt) : cnt[m].n >= cnt[j].n
                      /\ \A m \in 1..(j - 1) : cnt[m].n > cnt[j].n
         IN  <<cnt[i]>> \o most_common_ascending(RemoveAt(cnt, i), k - 1)

\* Counter.most_common(k): heapq.nlargest(k, items, key=count), which is
\* sorted(items, key=count, reverse=True)[:k]: a stable sort, so equal counts
\* stay in first-seen order.  Each step takes the first entry of largest count.
RECURSIVE most_common(_, _)
most_common(cnt, k) ==
    IF k <= 0 \/ cnt = <<>> THEN <<>>
    ELSE LET i == CHOOSE j \in 1..Len(cnt) :
                      /\ \A m \in 1..Len(cnt) : cnt[m].n <= cnt[j].n
                      /\ \A m \in 1..(j - 1) : cnt[m].n < cnt[j].n
         IN  <<cnt[i]>> \o most_common(RemoveAt(cnt, i), k - 1)

top_k_keywords_from_abstract(abstract, k) ==
    LET cnt == Counter(tokenize(abstract))
        mc == most_common(cnt, k)
    IN  [i \in 1..Len(mc) |-> mc[i].w]

-----------------------------------------------------------------------------
(* load_data.py: projection of one paper into its derived items.           *)

TopK == 10         \* top_k_keywords_from_abstract(abstract, k=10)
BatchSize == 25    \* range(0, len(all_items), 25)

\* Key prefixes and constants of the f-strings.
PfxPaper == <<"P","A","P","E","R","#">>
PfxCategory == <<"C","A","T","E","G","O","R","Y","#">>
PfxAuthorItem == <<"A","U","T","H","O","R","I","T","E","M","#">>
PfxAuthor == <<"A","U","T","H","O","R","#">>
PfxKeywordItem == <<"K","E","Y","W","O","R","D","I","T","E","M","#">>
PfxKw == <<"K","W","#">>
Detail == <<"D","E","T","A","I","L">>
Hash == <<"#">>
SentinelDate == <<"0","0","0","0","-","0","0","-","0","0">>

\* A published that is not a str: the JSON number 0, which is falsy, and a JSON number
\* other than 0 (20240131, say), of which iso_ts[:10] raises TypeError.
ZeroVal == <<"zero">>
NumVal == <<"number">>

\* iso_ts[:10]
iso_to_date_str(iso_ts) == Slice(iso_ts, 10)

\* iso_to_date_str(published_iso) if published_iso else "0000-00-00"
published_date(p) ==
    IF p.published \notin {NoneVal, <<>>, ZeroVal}
    THEN iso_to_date_str(p.published)
    ELSE SentinelDate

\* keywords = top_k_keywords_from_abstract(abstract, k=10), abstract = p.get("abstract") or ""
keywords_of(p) == top_k_keywords_from_abstract(OrEmpty(p.abstract), TopK)

\* f"{published_date}#{arxiv_id}"
date_id_key(p) == published_date(p) \o Hash \o p.arxiv_id

detail_item(p) ==
    [PK |-> PfxPaper \o p.arxiv_id, SK |-> Detail,
     GSI3PK |-> PfxPaper \o p.arxiv_id, GSI3SK |-> Detail,
     arxiv_id |-> p.arxiv_id, title |-> p.title, authors |-> OrEmpty(p.authors),
     abstract |-> OrEmpty(p.abstract), categories |-> OrEmpty(p.categories),
     keywords |-> keywords_of(p), published |-> p.published,
     item_type |-> "PAPER_DETAIL"]

\* A plausible slip: the id-index keys are copied onto the category rows.
cat_item_indexed_by_id(p, cat) ==
    [PK |-> PfxCategory \o cat, SK |-> date_id_key(p),
     GSI3PK |-> PfxPaper \o p.arxiv_id, GSI3SK |-> Detail,
     arxiv_id |-> p.arxiv_id, title |-> p.title, authors |-> OrEmpty(p.authors),
     abstract |-> OrEmpty(p.abstract), categories |-> OrEmpty(p.categories),
     keywords |-> keywords_of(p), published |-> p.published,
     item_type |-> "CATEGORY_ITEM"]

cat_item(p, cat) ==
    [PK |-> PfxCategory \o cat, SK |-> date_id_key(p),
     arxiv_id |-> p.arxiv_id, title |-> p.title, authors |-> OrEmpty(p.authors),
     abstract |-> OrEmpty(p.abstract), categories |-> OrEmpty(p.categories),
     keywords |-> keywords_of(p), published |-> p.published,
     item_type |-> "CATEGORY_ITEM"]

\* A plausible slip: the author name is normalised in the keys.
author_item_lowercased(p, au) ==
    [PK |-> PfxAuthorItem \o lower(au), SK |-> date_id_key(p),
     GSI1PK |-> PfxAuthor \o lower(au), GSI1SK |-> date_id_key(p),
     arxiv_id |-> p.arxiv_id, title |-> p.title, categories |-> OrEmpty(p.categories),
     published |-> p.published, item_type |-> "AUTHOR_ITEM"]

author_item(p, au) ==
    [PK |-> PfxAuthorItem \o au, SK |-> date_id_key(p),
     GSI1PK |-> PfxAuthor \o au, GSI1SK |-> date_id_key(p),
     arxiv_id |-> p.arxiv_id, title |-> p.title, categories |-> OrEmpty(p.categories),
     published |-> p.published, item_type |-> "AUTHOR_ITEM"]

kw_item(p, kw) ==
    [PK |-> PfxKeywordItem \o kw, SK |-> date_id_key(p),
     GSI2PK |-> PfxKw \o kw, GSI2SK |-> date_id_key(p),
     arxiv_id |-> p.arxiv_id, title |-> p.title, categories |-> OrEmpty(p.categories),
     published |-> p.published, item_type |-> "KEYWORD_ITEM"]

\* A plausible slip: one item per distinct category instead of one per entry.
cat_items_distinct(p) ==
    LET categories == OrEmpty(p.categories)
        first == SelectSeq([n \in 1..Len(categories) |-> n],
                           LAMBDA n : \A m \in 1..(n - 1) : categories[m] # categories[n])
    IN  [n \in 1..Len(first) |-> cat_item(p, categories[first[n]])]

\* for cat in categories: all_items.append(cat_item), categories = p.get("categories") or []
cat_items(p) ==
    LET categories == OrEmpty(p.categories)
    IN  [n \in 1..Len(categories) |-> cat_item(p, categories[n])]

\* for au in authors: all_items.append(author_item), authors = p.get("authors") or []
author_items(p) ==
    LET authors == OrEmpty(p.authors)
    IN  [n \in 1..Len(authors) |-> author_item(p, authors[n])]

\* for kw in keywords: skip kw already in seen_kw, else all_items.append(kw_item)
kw_items(p) ==
    LET kws == keywords_of(p)
        kept == SelectSeq([n \in 1..Len(kws) |-> n],
                          LAMBDA n : \A m \in 1..(n - 1) : kws[m] # kws[n])
    IN  [n \in 1..Len(kept) |-> kw_item(p, kws[kept[n]])]

\* A plausible slip: the detail item is appended after the denormalized ones.
project_paper_detail_last(p) ==
    cat_items(p) \o author_items(p) \o kw_items(p) \o <<detail_item(p)>>

\* The items one pass of the body of `for p in papers` appends, in order.
project_paper(p) == <<detail_item(p)>> \o cat_items(p) \o author_items(p) \o kw_items(p)

-----------------------------------------------------------------------------
(* The table and load_data.py: put_batch.                                  *)

\* overwrite_by_pkeys=['PK','SK']: two requests name the same row.
SameKey(a, b) == a.PK = b.PK /\ a.SK = b.SK

\* a sorts before b by primary key
KeyLess(a, b) == StrLess(a.PK, b.PK) \/ (a.PK = b.PK /\ StrLess(a.SK, b.SK))

\* A plausible slip: a put adds a row and leaves the old one.
PutItem_insert(t, it) == Append(t, it)

\* A PutRequest: the row with the item's primary key is replaced, or the item is added.
\* A table has no order of insertion: the rows are listed by primary key.
PutItem(t, it) ==
    IF \E i \in 1..Len(t) : SameKey(t[i], it)
    THEN [i \in 1..Len(t) |-> IF SameKey(t[i], it) THEN it ELSE t[i]]
    ELSE SelectSeq(t, LAMBDA r : KeyLess(r, it)) \o <<it>>
         \o SelectSeq(t, LAMBDA r : ~KeyLess(r, it))

RECURSIVE PutAll(_, _)
PutAll(t, buf) == IF buf = <<>> THEN t ELSE PutAll(PutItem(t, Head(buf)), Tail(buf))

\* One BatchWriteItem request.  The store rejects (ValidationException) a request that
\* names one key twice, and then writes nothing of it.
BatchWriteItem(t, buf) ==
    IF \E i, j \in 1..Len(buf) : i < j /\ SameKey(buf[i], buf[j])
    THEN [ok |-> FALSE, table |-> t]
    ELSE [ok |-> TRUE, table |-> PutAll(t, buf)]

\* batch.put_item under overwrite_by_pkeys: a buffered request for the same key is
\* dropped before the new one is appended.
RECURSIVE batch_buffer(_, _)
batch_buffer(buf, items) ==
    IF items = <<>> THEN buf
    ELSE batch_buffer(
             Append(SelectSeq(buf, LAMBDA r : ~SameKey(r, Head(items))), Head(items)),
             Tail(items))

\* A plausible slip: batch_writer() without overwrite_by_pkeys.
put_batch_no_overwrite(t, items) == BatchWriteItem(t, items)

\* put_batch(table, items): at most 25 items, so one flush of the batch writer.
put_batch(t, items) == BatchWriteItem(t, batch_buffer(<<>>, items))

\* all_items[i:i+25] of the batch loop.
batch_slice_full_only(items, i) ==
    IF i + BatchSize <= Len(items) THEN SubSeq(items, i + 1, i + BatchSize) ELSE <<>>

batch_slice(items, i) == SubSeq(items, i + 1, Min(i + BatchSize, Len(items)))

\* The requests of buf at the positions S, in order.
Pick(buf, S) ==
    LET F[n \in 0..Len(buf)] ==
            IF n = 0 THEN <<>>
            ELSE IF n \in S THEN Append(F[n - 1], buf[n]) ELSE F[n - 1]
    IN  F[Len(buf)]

\* A flush that ends in an error of the store (throttling, a timeout, a lost
\* connection).  BatchWriteItem is not atomic and the batch writer sends unprocessed
\* requests again, so any part of the buffer may have been applied when the error is
\* raised.
failed_flush_outcomes(t, buf) == {PutAll(t, Pick(buf, S)) : S \in SUBSET (1..Len(buf))}

-----------------------------------------------------------------------------
(* The store's Query operation, as the executors use it.                   *)

DefaultLimit == 20   \* limit=20 of query_recent_in_category and query_papers_by_keyword

\* KeySchema of the table and of its three global secondary indexes (ensure_table).
PKAttr(index) ==
    CASE index = "table" -> "PK"
      [] index = "AuthorIndex" -> "GSI1PK"
      [] index = "KeywordIndex" -> "GSI2PK"
      [] index = "PaperIdIndex" -> "GSI3PK"

SKAttr(index) ==
    CASE index = "table" -> "SK"
      [] index = "AuthorIndex" -> "GSI1SK"
      [] index = "KeywordIndex" -> "GSI2SK"
      [] index = "PaperIdIndex" -> "GSI3SK"

\* Projection of each index: ALL, or the keys plus the INCLUDE list.
Projected(index, it) ==
    IF index \in {"table", "PaperIdIndex"} THEN it
    ELSE [f \in DOMAIN it \cap {"PK", "SK", PKAttr(index), SKAttr(index),
                                "arxiv_id", "title", "categories", "published"} |-> it[f]]

NoKey == [none |-> TRUE]
NoRange == <<>>

\* Query(KeyConditionExpression, ScanIndexForward, Limit, ExclusiveStartKey) on
\* `index`: the rows that carry the index keys, have partition key pk and a sort key
\* within range (inclusive, Key.between), in sort-key order, resumed strictly after
\* esk; it returns at most min(limit, cap) of them, cap being where the store ends
\* the page, and LastEvaluatedKey when the page was ended before the partition was.
Query(t, index, pk, range, forward, limit, esk, cap) ==
    LET pka == PKAttr(index)
        ska == SKAttr(index)
        Before(a, b) == IF forward THEN StrLess(a, b) ELSE StrLess(b, a)
        Matches(it) ==
            /\ pka \in DOMAIN it /\ ska \in DOMAIN it
            /\ it[pka] = pk
            /\ range # NoRange => StrLeq(range[1], it[ska]) /\ StrLeq(it[ska], range[2])
            /\ esk # NoKey => Before(esk.sk, it[ska])
        hits == SelectSeq(t, Matches)
        \* the first k hits in sort-key order, rows of one sort key by primary key
        Sorted[k \in 0..Len(hits)] ==
            IF k = 0 THEN <<>>
            ELSE LET x == hits[k]
                     s == Sorted[k - 1]
                 IN  SelectSeq(s, LAMBDA e : ~Before(x[ska], e[ska])) \o <<x>>
                     \o SelectSeq(s, LAMBDA e : Before(x[ska], e[ska]))
        sorted == Sorted[Len(hits)]
        n == Min(Min(limit, cap), Len(sorted))
        page == [r \in 1..n |-> Projected(index, sorted[r])]
    IN  [Items |-> page,
         LastEvaluatedKey |->
             IF n >= 1 /\ n = Min(limit, cap)
             THEN [PK |-> sorted[n].PK, SK |-> sorted[n].SK, sk |-> sorted[n][ska]]
             ELSE NoKey]

\* The store does not end the page: what is asked for is under the size limit of a
\* page (1 MB).
NoCap(t) == Len(t) + 1
\* A Query without Limit.
NoLimit(t) == Len(t) + 1

-----------------------------------------------------------------------------
(* query_papers.py / api_server.py: the query executors.                   *)

NoneItem == [item_type |-> "None"]

\* One table.query, of which resp.get("Items", []) is returned: the first page, which
\* the store ends after `cap` items, and LastEvaluatedKey is not looked at.
query_recent_in_category(t, category, limit, cap) ==
    Query(t, "table", PfxCategory \o category, NoRange, FALSE, limit, NoKey, cap).Items

\* A plausible slip: the lookup goes to the table's partition keys of all variants.
get_paper_by_id_any_row(t, arxiv_id, cap) ==
    LET hits == SelectSeq(t, LAMBDA it : it.arxiv_id = arxiv_id)
    IN  IF hits # <<>> THEN hits[1] ELSE NoneItem

get_paper_by_id(t, arxiv_id, cap) ==
    LET items == Query(t, "PaperIdIndex", PfxPaper \o arxiv_id, NoRange, TRUE,
                       NoLimit(t), NoKey, cap).Items
    IN  IF items # <<>> THEN items[1] ELSE NoneItem

HighSentinel == <<"z","z","z","z","z","z","z">>

\* A plausible slip: a numeric high sentinel.
date_range_bounds_numeric(start_date, end_date) ==
    <<start_date \o Hash, end_date \o Hash \o <<"9","9","9","9","9","9","9">> >>

\* Key('SK').between(f'{start_date}#', f'{end_date}#zzzzzzz')
date_range_bounds(start_date, end_date) ==
    <<start_date \o Hash, end_date \o Hash \o HighSentinel>>

\* One response of the loop of query_papers_in_date_range.
date_range_page(t, category, start_date, end_date, esk, cap) ==
    Query(t, "table", PfxCategory \o category, date_range_bounds(start_date, end_date),
          TRUE, NoLimit(t), esk, cap)

\* A plausible slip: ExclusiveStartKey is not passed on.
author_page_from_start(t, author_name, esk, cap) ==
    Query(t, "AuthorIndex", PfxAuthor \o author_name, NoRange, FALSE, NoLimit(t), NoKey, cap)

\* One response of the loop of query_papers_by_author.
author_page(t, author_name, esk, cap) ==
    Query(t, "AuthorIndex", PfxAuthor \o author_name, NoRange, FALSE, NoLimit(t), esk, cap)

\* One table.query, the first page of which is returned, as in
\* query_recent_in_category.
query_papers_by_keyword(t, keyword, limit, cap) ==
    Query(t, "KeywordIndex", PfxKw \o lower(keyword), NoRange, FALSE, limit, NoKey,
          cap).Items

-----------------------------------------------------------------------------
(* The inputs the model draws from.                                        *)

MaxPapers == 1     \* longest corpus built freely from Pool
BulkSize == 21     \* distinct papers of the one-category corpus BulkCorpus
MaxLimit == 3      \* largest explicit limit of a query
MaxPage == 2       \* most items of a page that the store ends at its size limit
MaxFaulty == 6     \* most requests of a flush on which the store is let fail

\* Where the store may end a page of a Query: after 1..MaxPage items, its size
\* limit being reached, or not before Limit and the end of the partition.
PageCaps(t) == (1..MaxPage) \cup {NoCap(t)}

IdA == <<"2","4","0","1",".","1">>
IdB == <<"2","4","0","1",".","2">>
IdC == <<"c","s","/","0","1">>
IdNever == <<"9","9","9","9">>

Alice == <<"A","l","i","c","e">>
AliceLower == <<"a","l","i","c","e">>
Bob == <<"B","o","b">>

CsLG == <<"c","s",".","L","G">>
CsAI == <<"c","s",".","A","I">>
MathCO == <<"m","a","t","h",".","C","O">>

Jan01 == <<"2","0","2","4","-","0","1","-","0","1">>
Jan31 == <<"2","0","2","4","-","0","1","-","3","1">>
Feb01 == <<"2","0","2","4","-","0","2","-","0","1">>
TimeOfDay == <<"T","0","9",":","3","0",":","0","0","Z">>

WNet == <<"n","e","t">>
WNetCap == <<"N","e","t">>
WNetUpper == <<"N","E","T">>
WLink == <<"L","i","n","k">>
WLinkKelvin == <<"L","i","n",Chr(8490)>>        \* "LinK" written with KELVIN SIGN
WOmicronSigma == <<Chr(927), Chr(931)>>         \* GREEK CAPITAL OMICRON, CAPITAL SIGMA
WOmicronSigmaSmall == <<Chr(959), Chr(963)>>    \* GREEK SMALL OMICRON, SMALL SIGMA
Sp == <<" ">>

PaperA ==
    [arxiv_id |-> IdA, title |-> <<"A">>, authors |-> <<Alice>>,
     abstract |-> WLink \o Sp \o WNet \o Sp \o lower(WLink),
     categories |-> <<CsLG, CsAI>>, published |-> Jan31 \o TimeOfDay]

PaperB ==
    [arxiv_id |-> IdB, title |-> <<"B">>, authors |-> <<AliceLower, Alice>>,
     abstract |-> NoneVal,
     categories |-> <<CsLG>>, published |-> Feb01 \o TimeOfDay]

\* The id of PaperA again, with an author and a category listed twice.
PaperC ==
    [arxiv_id |-> IdA, title |-> <<"C">>, authors |-> <<Alice, Alice>>,
     abstract |-> <<"t","h","e">> \o Sp \o WNetCap \o <<"-">> \o WNet,
     categories |-> <<CsLG, CsLG>>, published |-> Jan31 \o TimeOfDay]

\* Nothing but an id.
PaperD ==
    [arxiv_id |-> IdC, title |-> <<"D">>, authors |-> <<>>,
     abstract |-> <<>>, categories |-> <<>>, published |-> NoneVal]

\* The id of PaperD again.
PaperE ==
    [arxiv_id |-> IdC, title |-> <<"E">>, authors |-> <<Bob>>,
     abstract |-> WNet,
     categories |-> <<CsAI, CsLG>>, published |-> Jan01 \o TimeOfDay]

Pool == {PaperA, PaperB, PaperC, PaperD, PaperE}

\* Corpora of two papers: one id twice, and one author in papers of two ids.
Pairs == {<<PaperA, PaperC>>, <<PaperC, PaperB>>, <<PaperD, PaperE>>}

Digit(n) == Chr(48 + n)
TwoDigits(n) == <<Digit(n \div 10), Digit(n % 10)>>

\* Paper i of the bulk corpus: one category, one author, one keyword, an id of the new
\* (2402.NN) or the old (cs/02NN) style, and a date that cycles over three days so that
\* id order and date order differ.
BulkPaper(i) ==
    [arxiv_id |-> (IF i % 2 = 0 THEN <<"c","s","/","0","2">> ELSE <<"2","4","0","2",".">>)
                  \o TwoDigits(i),
     title |-> <<"T">>,
     authors |-> <<Bob>>, abstract |-> WNet, categories |-> <<CsLG>>,
     published |-> (CASE i % 3 = 0 -> Jan01 [] i % 3 = 1 -> Jan31 [] OTHER -> Feb01)
                   \o TimeOfDay]

\* BulkSize distinct papers, then the first of them again with a revised title.
BulkCorpus ==
    [i \in 1..BulkSize |-> BulkPaper(i)] \o <<[BulkPaper(1) EXCEPT !.title = <<"U">>]>>

\* A well-formed record followed by one whose published is a number.
BadCorpus == <<BulkPaper(1), [BulkPaper(2) EXCEPT !.published = NumVal]>>

\* Records with null where a list is expected, and with a published that is 0 or "".
NullCorpus ==
    <<[arxiv_id |-> IdB, title |-> <<"N">>, authors |-> NoneVal,
       abstract |-> lower(WLink) \o Sp \o WNet,
       categories |-> <<CsLG, CsAI>>, published |-> ZeroVal],
      [arxiv_id |-> IdC, title |-> <<"O">>, authors |-> <<Bob>>,
       abstract |-> WNet,
       categories |-> NoneVal, published |-> <<>>]>>

\* Seven papers of the bulk corpus: a full batch, and a second batch of three items.
LateCorpus == [i \in 1..7 |-> BulkPaper(i)]

Corpora ==
    UNION {[1..n -> Pool] : n \in 0..MaxPapers} \cup Pairs
    \cup {BulkCorpus, BadCorpus, NullCorpus, LateCorpus}

QCategories == {CsLG, CsAI, MathCO}
QAuthors == {Alice, AliceLower, Bob}
QIds == {IdA, IdB, IdC, IdNever, BulkPaper(1).arxiv_id}
QDates == {Jan01, Jan31, Feb01}
QKeywords ==
    {WNet, WNetCap, WNetUpper, WLink, WLinkKelvin, WOmicronSigma, WOmicronSigmaSmall}

\* Abstracts under SpecKw: up to MaxFrags of these fragments, concatenated.
Frags == {
    WNet \o Sp, WNetCap \o <<"-">>, <<"T","h","e">> \o Sp, lower(WLink) \o <<"2">>,
    <<"a","b">> \o Sp \o <<"w","e","b">> \o Sp, <<"u","s","e">>
}

RECURSIVE Concat(_)
Concat(fs) == IF fs = <<>> THEN <<>> ELSE Head(fs) \o Concat(Tail(fs))

Texts == {Concat(fs) : fs \in UNION {[1..n -> Frags] : n \in 0..MaxFrags}} \cup {NoneVal}

-----------------------------------------------------------------------------
(* load_data.py: main().                                                   *)

ZeroCounts ==
    [paper_detail_items |-> 0, category_items |-> 0, author_items |-> 0,
     keyword_items |-> 0]

NoReport == [kind |-> "none"]
NoTable == <<[item_type |-> "none"]>>

RECURSIVE BitLength(_)
BitLength(n) == IF n = 0 THEN 0 ELSE 1 + BitLength(n \div 2)

\* Where the float of a quotient lies with respect to the quotient.  The quotient is
\* rounded to 53 significant bits; `got` of them are produced and r / b is the part of
\* the quotient below the last of them, in units of that bit.  (With 53 bits produced
\* r / b is never one half: the operands are far below 2^53.)
RECURSIVE float_side(_, _, _)
float_side(r, b, got) ==
    IF r = 0 THEN "exact"
    ELSE IF got = 53 THEN (IF 2 * r > b THEN "above" ELSE "below")
    ELSE LET bit == 2 * r >= b
         IN  float_side(IF bit THEN 2 * r - b ELSE 2 * r, b,
                        IF got > 0 \/ bit THEN got + 1 ELSE 0)

\* denorm_factor = total_items / total_papers (0.0 for no papers) as printed with
\* {denorm_factor:.1f}, in tenths: the float is rounded to the nearest tenth, and a
\* float that is exactly halfway between two tenths goes to the even one.
denorm_factor(total_items, n_papers) ==
    IF n_papers = 0 THEN 0
    ELSE LET k == (10 * total_items) \div n_papers
             rest == (10 * total_items) % n_papers
             side == float_side(total_items % n_papers, n_papers,
                                BitLength(total_items \div n_papers))
         IN  IF 2 * rest < n_papers THEN k
             ELSE IF 2 * rest > n_papers THEN k + 1
             ELSE IF side = "above" THEN k + 1
             ELSE IF side = "below" THEN k
             ELSE IF k % 2 = 0 THEN k ELSE k + 1

\* total_items and the lines printed after the batch loop.
summary(n_papers, cnt) ==
    LET total_items == cnt.paper_detail_items + cnt.category_items
                       + cnt.author_items + cnt.keyword_items
    IN  [kind |-> "summary",
         total_papers |-> n_papers,
         total_items |-> total_items,
         denorm_factor |-> denorm_factor(total_items, n_papers),
         category_items |-> cnt.category_items,
         author_items |-> cnt.author_items,
         keyword_items |-> cnt.keyword_items,
         paper_detail_items |-> cnt.paper_detail_items]

\* An exception main() does not catch: the interpreter prints the traceback, which
\* names the exception and the line, and the process ends.
traceback(exception) == [kind |-> "traceback", exception |-> exception]

QueryIdle ==
    /\ q = [kind |-> "none"]
    /\ qpc = "idle"
    /\ qitems = <<>>
    /\ qlek = NoKey
    /\ qres = <<>>

NoRequest == [route |-> "none"]
NoResponse == [status |-> 0]
NoLog == [status |-> 0]

ApiOff ==
    /\ req = NoRequest
    /\ resp = NoResponse
    /\ log = NoLog
    /\ store_calls = <<>>

KwOff ==
    /\ kw_text = <<>>
    /\ kw_k = 0
    /\ kw_out = <<>>
    /\ kw_pc = "off"

Init ==
    /\ papers \in Corpora
    /\ pc = "project"
    /\ idx = 1
    /\ total_papers = 0
    /\ counts = ZeroCounts
    /\ all_items = <<>>
    /\ bi = 0
    /\ table = <<>>
    /\ err = "none"
    /\ run = "first"
    /\ first_table = NoTable
    /\ batches = <<>>
    /\ report = NoReport
    /\ QueryIdle
    /\ KwOff
    /\ ApiOff

\* One pass of the body of `for p in papers` persisting its items at once: a slip.
ProjectPaper_write_through ==
    /\ pc = "project"
    /\ idx <= Len(papers)
    /\ papers[idx].published # NumVal
    /\ LET p == papers[idx]
       IN  /\ all_items' = all_items \o project_paper(p)
           /\ table' = PutAll(table, project_paper(p))
           /\ counts' = [counts EXCEPT
                  !.paper_detail_items = @ + 1,
                  !.category_items = @ + Len(cat_items(p)),
                  !.author_items = @ + Len(author_items(p)),
                  !.keyword_items = @ + Len(kw_items(p))]
    /\ total_papers' = total_papers + 1
    /\ idx' = idx + 1
    /\ UNCHANGED <<papers, pc, bi, err, run, first_table, batches, report,
                   query_vars, kw_vars, api_vars>>

\* One pass of the body of `for p in papers` (lines 121-197).  A published that is
\* a number other than 0 makes iso_to_date_str raise TypeError, which ends main().
ProjectPaper ==
    /\ pc = "project"
    /\ idx <= Len(papers)
    /\ total_papers' = total_papers + 1
    /\ LET p == papers[idx]
       IN  IF p.published = NumVal
           THEN /\ pc' = "failed"
                /\ err' = "TypeError"
                /\ report' = traceback("TypeError")
                /\ UNCHANGED <<all_items, counts, idx>>
           ELSE /\ all_items' = all_items \o project_paper(p)
                /\ counts' = [counts EXCEPT
                       !.paper_detail_items = @ + 1,
                       !.category_items = @ + Len(cat_items(p)),
                       !.author_items = @ + Len(author_items(p)),
                       !.keyword_items = @ + Len(kw_items(p))]
                /\ idx' = idx + 1
                /\ UNCHANGED <<pc, err, report>>
    /\ UNCHANGED <<papers, bi, table, run, first_table, batches, query_vars, kw_vars,
                   api_vars>>

\* The projection loop is exhausted: the batch loop starts at i = 0.
EndProject ==
    /\ pc = "project"
    /\ idx > Len(papers)
    /\ pc' = "write"
    /\ bi' = 0
    /\ UNCHANGED <<papers, idx, total_papers, counts, all_items, table, err, run,
                   first_table, batches, report, query_vars, kw_vars, api_vars>>

\* put_batch(table, all_items[i:i+25]): the batch is written and the loop goes on, or
\* the batch writer raises (a request the store rejects, or an error of the store)
\* and the exception ends main().  An error of the store is taken on the flushes of
\* up to MaxFaulty requests, with every part of them that may have been applied.
WriteBatch ==
    /\ pc = "write"
    /\ bi < Len(all_items)
    /\ LET items == batch_slice(all_items, bi)
           r == put_batch(table, items)
           buf == batch_buffer(<<>>, items)
       IN  /\ batches' = Append(batches, items)
           /\ \/ IF r.ok
                 THEN /\ table' = r.table
                      /\ bi' = bi + BatchSize
                      /\ UNCHANGED <<pc, err, report>>
                 ELSE /\ pc' = "failed"
                      /\ err' = "ValidationException"
                      /\ report' = traceback("ValidationException")
                      /\ UNCHANGED <<table, bi>>
              \/ /\ Len(buf) <= MaxFaulty
                 /\ table' \in failed_flush_outcomes(table, buf)
                 /\ pc' = "failed"
                 /\ err' = "StoreError"
                 /\ report' = traceback("StoreError")
                 /\ UNCHANGED bi
    /\ UNCHANGED <<papers, idx, total_papers, counts, all_items, run, first_table,
                   query_vars, kw_vars, api_vars>>

\* The batch loop is exhausted: the summary is printed and main() returns.
EndWrite ==
    /\ pc = "write"
    /\ bi >= Len(all_items)
    /\ pc' = "done"
    /\ report' = summary(total_papers, counts)
    /\ UNCHANGED <<papers, idx, total_papers, counts, all_items, bi, table, err, run,
                   first_table, batches, query_vars, kw_vars, api_vars>>

\* The loader is started again on the same corpus and the same table, after a run
\* that completed or one that an exception ended.
Rerun ==
    /\ pc \in {"done", "failed"}
    /\ qpc = "idle"
    /\ run' = "later"
    /\ first_table' = IF pc = "done" /\ first_table = NoTable THEN table ELSE first_table
    /\ pc' = "project"
    /\ idx' = 1
    /\ total_papers' = 0
    /\ counts' = ZeroCounts
    /\ all_items' = <<>>
    /\ bi' = 0
    /\ batches' = <<>>
    /\ report' = NoReport
    /\ err' = "none"
    /\ UNCHANGED <<papers, table, query_vars, kw_vars, api_vars>>

-----------------------------------------------------------------------------
(* The executors, run against the table once the loader has ended.         *)

\* main() has returned or has raised: the executors are run against the table as the
\* loader left it, complete or partly loaded.
LoadEnded == pc \in {"done", "failed"}

\* table.query raised (throttling, a timeout, a lost connection): no executor catches
\* it, so the executor's frame, its arguments and the items it had gathered, is gone.
Raised(kind) ==
    /\ q' = [kind |-> kind]
    /\ qpc' = "raised"
    /\ qitems' = <<>>
    /\ qlek' = NoKey
    /\ qres' = <<>>

RecentInCategory ==
    /\ LoadEnded /\ qpc = "idle"
    /\ \/ \E category \in QCategories, given \in BOOLEAN, n \in 1..MaxLimit,
             cap \in PageCaps(table) :
          \* limit as passed, or the default of the signature when the caller omits it
          LET limit == IF given THEN n ELSE DefaultLimit
          IN  /\ q' = [kind |-> "recent", category |-> category,
                       limit_given |-> given, limit |-> limit]
              /\ qres' = query_recent_in_category(table, category, limit, cap)
              /\ qpc' = "done"
              /\ UNCHANGED <<qitems, qlek>>
       \/ Raised("recent")
    /\ UNCHANGED <<loader_vars, kw_vars, api_vars>>

GetPaperById ==
    /\ LoadEnded /\ qpc = "idle"
    /\ \/ \E arxiv_id \in QIds, cap \in PageCaps(table) :
             /\ q' = [kind |-> "get", arxiv_id |-> arxiv_id]
             /\ qres' = get_paper_by_id(table, arxiv_id, cap)
             /\ qpc' = "done"
             /\ UNCHANGED <<qitems, qlek>>
       \/ Raised("get")
    /\ UNCHANGED <<loader_vars, kw_vars, api_vars>>

PapersByKeyword ==
    /\ LoadEnded /\ qpc = "idle"
    /\ \/ \E keyword \in QKeywords, given \in BOOLEAN, n \in 1..MaxLimit,
             cap \in PageCaps(table) :
          LET limit == IF given THEN n ELSE DefaultLimit
          IN  /\ q' = [kind |-> "keyword", keyword |-> keyword,
                       limit_given |-> given, limit |-> limit]
              /\ qres' = query_papers_by_keyword(table, keyword, limit, cap)
              /\ qpc' = "done"
              /\ UNCHANGED <<qitems, qlek>>
       \/ Raised("keyword")
    /\ UNCHANGED <<loader_vars, kw_vars, api_vars>>

\* query_papers_in_date_range: items = [], kwargs without ExclusiveStartKey.
DateRangeStart ==
    /\ LoadEnded /\ qpc = "idle"
    /\ \E category \in QCategories, start_date \in QDates, end_date \in QDates :
          /\ StrLeq(start_date, end_date)
          /\ q' = [kind |-> "daterange", category |-> category,
                   start_date |-> start_date, end_date |-> end_date]
    /\ qpc' = "paging"
    /\ qitems' = <<>>
    /\ qlek' = NoKey
    /\ UNCHANGED <<loader_vars, qres, kw_vars, api_vars>>

\* One pass of its `while True`: query, extend, break or set ExclusiveStartKey.
DateRangePage ==
    /\ qpc = "paging" /\ q.kind = "daterange"
    /\ \/ \E cap \in PageCaps(table) :
             LET response == date_range_page(table, q.category, q.start_date, q.end_date,
                                             qlek, cap)
             IN  /\ qitems' = qitems \o response.Items
                 /\ qlek' = response.LastEvaluatedKey
                 /\ IF response.LastEvaluatedKey = NoKey
                    THEN qpc' = "done" /\ qres' = qitems'
                    ELSE UNCHANGED <<qpc, qres>>
                 /\ UNCHANGED q
       \/ Raised("daterange")
    /\ UNCHANGED <<loader_vars, kw_vars, api_vars>>

\* query_papers_by_author: items = [], kwargs without ExclusiveStartKey.
AuthorStart ==
    /\ LoadEnded /\ qpc = "idle"
    /\ \E author_name \in QAuthors :
          q' = [kind |-> "author", author_name |-> author_name]
    /\ qpc' = "paging"
    /\ qitems' = <<>>
    /\ qlek' = NoKey
    /\ UNCHANGED <<loader_vars, qres, kw_vars, api_vars>>

\* One pass of its `while True`.
AuthorPage ==
    /\ qpc = "paging" /\ q.kind = "author"
    /\ \/ \E cap \in PageCaps(table) :
             LET response == author_page(table, q.author_name, qlek, cap)
             IN  /\ qitems' = qitems \o response.Items
                 /\ qlek' = response.LastEvaluatedKey
                 /\ IF response.LastEvaluatedKey = NoKey
                    THEN qpc' = "done" /\ qres' = qitems'
                    ELSE UNCHANGED <<qpc, qres>>
                 /\ UNCHANGED q
       \/ Raised("author")
    /\ UNCHANGED <<loader_vars, kw_vars, api_vars>>

\* The executor has returned or raised; the next request starts afresh.
QueryReturn ==
    /\ qpc \in {"done", "raised"}
    /\ q' = [kind |-> "none"]
    /\ qpc' = "idle"
    /\ qitems' = <<>>
    /\ qlek' = NoKey
    /\ qres' = <<>>
    /\ UNCHANGED <<loader_vars, kw_vars, api_vars>>

Next ==
    \/ ProjectPaper
    \/ EndProject
    \/ WriteBatch
    \/ EndWrite
    \/ Rerun
    \/ RecentInCategory
    \/ GetPaperById
    \/ PapersByKeyword
    \/ DateRangeStart
    \/ DateRangePage
    \/ AuthorStart
    \/ AuthorPage
    \/ QueryReturn

Spec == Init /\ [][Next]_vars

-----------------------------------------------------------------------------
(* The keyword extractor on its own.                                       *)

InitKw ==
    /\ papers = <<>>
    /\ pc = "off"
    /\ idx = 1
    /\ total_papers = 0
    /\ counts = ZeroCounts
    /\ all_items = <<>>
    /\ bi = 0
    /\ table = <<>>
    /\ err = "none"
    /\ run = "first"
    /\ first_table = NoTable
    /\ batches = <<>>
    /\ report = NoReport
    /\ QueryIdle
    /\ kw_text \in Texts
    /\ kw_k \in 0..MaxK
    /\ kw_out = <<>>
    /\ kw_pc = "ready"
    /\ ApiOff

ExtractKeywords ==
    /\ kw_pc = "ready"
    /\ kw_out' = top_k_keywords_from_abstract(kw_text, kw_k)
    /\ kw_pc' = "done"
    /\ UNCHANGED <<loader_vars, query_vars, kw_text, kw_k, api_vars>>

NextKw == ExtractKeywords

SpecKw == InitKw /\ [][NextKw]_vars

-----------------------------------------------------------------------------
(* api_server.py: Handler.do_GET, run against the table of a completed load. *)

\* The table a run of main() on the corpus ps leaves when no write fails.
RECURSIVE all_items_of(_)
all_items_of(ps) ==
    IF ps = <<>> THEN <<>> ELSE project_paper(Head(ps)) \o all_items_of(Tail(ps))

\* The batch loop: written[n] is the table after the first n batches.
loaded_table(ps) ==
    LET items == all_items_of(ps)
        nbatches == (Len(items) + BatchSize - 1) \div BatchSize
        written[n \in 0..nbatches] ==
            IF n = 0 THEN <<>>
            ELSE LET before == written[n - 1]
                 IN  \* batch n is submitted when batch n - 1 has returned
                     IF Len(before) >= 0
                     THEN put_batch(before, batch_slice(items, (n - 1) * BatchSize)).table
                     ELSE before
    IN  written[nbatches]

PathRecent == <<"/","p","a","p","e","r","s","/","r","e","c","e","n","t">>
PathAuthor == <<"/","p","a","p","e","r","s","/","a","u","t","h","o","r","/">>
PathKeyword == <<"/","p","a","p","e","r","s","/","k","e","y","w","o","r","d","/">>
PathSearch == <<"/","p","a","p","e","r","s","/","s","e","a","r","c","h">>
PathPapers == <<"/","p","a","p","e","r","s","/">>

\* str.startswith
startswith(s, prefix) == Len(s) >= Len(prefix) /\ SubSeq(s, 1, Len(prefix)) = prefix

\* s.split(sep, 1)[1]: what follows the first occurrence of sep (sep occurs in s).
split_after(s, sep) ==
    LET At(i) == i + Len(sep) - 1 <= Len(s) /\ SubSeq(s, i, i + Len(sep) - 1) = sep
        first == CHOOSE i \in 1..Len(s) : At(i) /\ \A j \in 1..(i - 1) : ~At(j)
    IN  SubSeq(s, first + Len(sep), Len(s))

\* the hex digits unquote_to_bytes knows, in both cases, each at its value plus one
HexDigits == <<"0","1","2","3","4","5","6","7","8","9","a","b","c","d","e","f">>
HexDigitsUpper == <<"0","1","2","3","4","5","6","7","8","9","A","B","C","D","E","F">>
IsHex(c) == \E n \in 1..16 : c \in {HexDigits[n], HexDigitsUpper[n]}
HexVal(c) == (CHOOSE n \in 1..16 : c \in {HexDigits[n], HexDigitsUpper[n]}) - 1

\* urllib.parse.unquote_to_bytes of a str of printable ASCII: %XX is the byte of that
\* value, a % that no two hex digits follow stays, any other character is its code.
RECURSIVE unquote_to_bytes(_)
unquote_to_bytes(s) ==
    IF s = <<>> THEN <<>>
    ELSE IF s[1] = "%" /\ Len(s) >= 3 /\ IsHex(s[2]) /\ IsHex(s[3])
         THEN <<16 * HexVal(s[2]) + HexVal(s[3])>> \o unquote_to_bytes(SubSeq(s, 4, Len(s)))
         ELSE <<Ord(s[1])>> \o unquote_to_bytes(Tail(s))

ReplacementChar == Chr(65533)

\* bytes.decode("utf-8", "replace"): a well-formed sequence of one to four bytes is its
\* code point; a byte that can start none, and the longest start of a well-formed
\* sequence that its next byte does not continue, become one U+FFFD each.
RECURSIVE decode(_)
decode(bs) ==
    IF bs = <<>> THEN <<>>
    ELSE LET b1 == bs[1]
             need == CASE b1 < 128 -> 0
                       [] b1 \in 194..223 -> 1
                       [] b1 \in 224..239 -> 2
                       [] b1 \in 240..244 -> 3
                       [] OTHER -> 4       \* 80..C1 and F5..FF start no sequence
             \* the values the second byte may take after b1
             second == CASE b1 = 224 -> 160..191
                         [] b1 = 237 -> 128..159
                         [] b1 = 240 -> 144..191
                         [] b1 = 244 -> 128..143
                         [] OTHER -> 128..191
             Continues(k) ==
                 k <= Len(bs) /\ bs[k] \in (IF k = 2 THEN second ELSE 128..191)
             \* how many of the bytes after b1 continue the sequence
             good == IF ~Continues(2) THEN 0
                     ELSE IF need = 1 \/ ~Continues(3) THEN 1
                     ELSE IF need = 2 \/ ~Continues(4) THEN 2
                     ELSE 3
             code == CASE need = 0 -> b1
                       [] need = 1 -> (b1 - 192) * 64 + (bs[2] - 128)
                       [] need = 2 -> (b1 - 224) * 4096 + (bs[2] - 128) * 64 + (bs[3] - 128)
                       [] need = 3 -> (b1 - 240) * 262144 + (bs[2] - 128) * 4096
                                      + (bs[3] - 128) * 64 + (bs[4] - 128)
         IN  IF need = 0 THEN <<Chr(b1)>> \o decode(Tail(bs))
             ELSE IF need = 4 THEN <<ReplacementChar>> \o decode(Tail(bs))
             ELSE IF good = need THEN <<Chr(code)>> \o decode(SubSeq(bs, need + 2, Len(bs)))
             ELSE <<ReplacementChar>> \o decode(SubSeq(bs, good + 2, Len(bs)))

\* urllib.parse.unquote(s), encoding utf-8, errors replace
unquote(s) == decode(unquote_to_bytes(s))

\* qs.get(name, [None])[0]: parse_qs leaves out a parameter whose value is blank.
qs_get(query, name) ==
    IF query[name] = NoneVal \/ query[name] = <<>> THEN NoneVal ELSE query[name]

\* `not x` of a value that is None or a str.
Falsy(x) == x = NoneVal \/ x = <<>>

\* The characters int() skips around a literal (CPython 3.11: the ASCII white space of
\* the parser and, above U+007E, the characters that are str.isspace), as ranges of
\* code points: two numbers to a range, first, last.
IntSpaceRanges == <<
    9,13,  32,32,  133,133,  160,160,  5760,5760,  8192,8202,  8232,8233,  8239,8239,
    8287,8287,  12288,12288
>>
IntSpace == {Chr(n) : n \in CodePoints(IntSpaceRanges)}

\* The decimal digits of Unicode 14.0 (category Nd), as ranges of code points: two
\* numbers to a range, first, last.  A range starts at a digit zero and the digits
\* follow in order, zero again after nine.
DecimalRanges == <<
    48,57,  1632,1641,  1776,1785,  1984,1993,  2406,2415,  2534,2543,  2662,2671,
    2790,2799,  2918,2927,  3046,3055,  3174,3183,  3302,3311,  3430,3439,  3558,3567,
    3664,3673,  3792,3801,  3872,3881,  4160,4169,  4240,4249,  6112,6121,  6160,6169,
    6470,6479,  6608,6617,  6784,6793,  6800,6809,  6992,7001,  7088,7097,  7232,7241,
    7248,7257,  42528,42537,  43216,43225,  43264,43273,  43472,43481,  43504,43513,
    43600,43609,  44016,44025,  65296,65305,  66720,66729,  68912,68921,  69734,69743,
    69872,69881,  69942,69951,  70096,70105,  70384,70393,  70736,70745,  70864,70873,
    71248,71257,  71360,71369,  71472,71481,  71904,71913,  72016,72025,  72784,72793,
    73040,73049,  73120,73129,  92768,92777,  92864,92873,  93008,93017,  120782,120831,
    123200,123209,  123632,123641,  125264,125273,  130032,130041
>>

\* The pairs <<digit, value>> of DecimalRanges.
DecimalPairs ==
    UNION {{<<Chr(n), (n - r[1]) % 10>> : n \in r[1]..r[2]} :
           r \in {SubSeq(DecimalRanges, 2 * i - 1, 2 * i) :
                     i \in 1..(Len(DecimalRanges) \div 2)}}
DecimalDigits == {p[1] : p \in DecimalPairs}

\* c is a digit of an int() literal
IsDigit(c) == c \in DecimalDigits
\* its value
digit_value(c) == (CHOOSE p \in DecimalPairs : p[1] = c)[2]

\* s without the characters int() skips at both ends
RECURSIVE strip(_)
strip(s) ==
    IF s = <<>> THEN s
    ELSE IF s[1] \in IntSpace THEN strip(Tail(s))
    ELSE IF s[Len(s)] \in IntSpace THEN strip(SubSeq(s, 1, Len(s) - 1))
    ELSE s

ZeroDigits == {p[1] : p \in {pr \in DecimalPairs : pr[2] = 0}}

\* The digits from the first that is not a zero.
significant(ds) ==
    LET nonzero == {i \in 1..Len(ds) : ds[i] \notin ZeroDigits}
    IN  IF nonzero = {} THEN <<>>
        ELSE SubSeq(ds, CHOOSE i \in nonzero : \A j \in nonzero : i <= j, Len(ds))

RECURSIVE base10(_)
base10(ds) ==
    IF ds = <<>> THEN 0
    ELSE 10 * base10(SubSeq(ds, 1, Len(ds) - 1)) + digit_value(ds[Len(ds)])

\* The number a sequence of decimal digits writes, leading zeros having no weight.
digits_value(ds) == base10(significant(ds))

\* sys.get_int_max_str_digits(): the most digits int() converts from a str.
MaxStrDigits == 4300

\* int(s) of a str: white space around, a sign, then decimal digits, which single
\* underscores may separate; anything else is ValueError, and so is a literal of
\* more than MaxStrDigits digits (leading zeros counted, underscores not).
int(s) ==
    LET t == strip(s)
        signed == t # <<>> /\ t[1] \in {"+", "-"}
        ds == IF signed THEN Tail(t) ELSE t
        literal == /\ ds # <<>>
                   /\ IsDigit(ds[1]) /\ IsDigit(ds[Len(ds)])
                   /\ \A i \in 1..Len(ds) : IsDigit(ds[i]) \/ ds[i] = "_"
                   /\ \A i \in 1..(Len(ds) - 1) : ~(ds[i] = "_" /\ ds[i + 1] = "_")
        digits == SelectSeq(ds, IsDigit)
    IN  IF literal /\ Len(digits) <= MaxStrDigits
        THEN [ok |-> TRUE,
              value |-> IF signed /\ t[1] = "-" THEN 0 - digits_value(digits)
                        ELSE digits_value(digits)]
        ELSE [ok |-> FALSE, value |-> 0]

\* self._send(status, payload)
send(status, payload) == [status |-> status, payload |-> payload]

\* A request the handler has to ask the store about.
call(executor, args) == [act |-> "call", executor |-> executor, args |-> args]
respond(status, payload) == [act |-> "send", response |-> send(status, payload)]

\* limit = int(limit) if limit is not None else 20
limit_of(raw) ==
    IF raw = NoneVal THEN [ok |-> TRUE, value |-> DefaultLimit] ELSE int(raw)

\* The chain of `if path ...` of do_GET up to the call of an executor: the response
\* it sends without one, or the executor it calls and the arguments it passes.
route(r) ==
    IF r.path = PathRecent THEN
        LET category == qs_get(r.query, "category")
            limit == limit_of(qs_get(r.query, "limit"))
        IN  IF Falsy(category) THEN respond(400, [error |-> "missing category"])
            ELSE IF ~limit.ok THEN respond(400, [error |-> "invalid limit"])
            ELSE call("recent", [category |-> category, limit |-> limit.value])
    ELSE IF startswith(r.path, PathAuthor) THEN
        LET author_name == unquote(split_after(r.path, PathAuthor))
        IN  IF Falsy(author_name) THEN respond(400, [error |-> "missing author_name"])
            ELSE call("author", [author_name |-> author_name])
    ELSE IF startswith(r.path, PathKeyword) THEN
        LET keyword == unquote(split_after(r.path, PathKeyword))
            limit == limit_of(qs_get(r.query, "limit"))
        IN  IF ~limit.ok THEN respond(400, [error |-> "invalid limit"])
            ELSE IF Falsy(keyword) THEN respond(400, [error |-> "missing keyword"])
            ELSE call("keyword", [keyword |-> keyword, limit |-> limit.value])
    ELSE IF startswith(r.path, PathSearch) THEN
        LET category == qs_get(r.query, "category")
            start_date == qs_get(r.query, "start")
            end_date == qs_get(r.query, "end")
        IN  IF Falsy(category) \/ Falsy(start_date) \/ Falsy(end_date)
            THEN respond(400, [error |-> "missing category/start/end"])
            ELSE call("daterange", [category |-> category, start_date |-> start_date,
                                    end_date |-> end_date])
    ELSE IF startswith(r.path, PathPapers) THEN
        LET arxiv_id == split_after(r.path, PathPapers)
        IN  IF Falsy(arxiv_id) THEN respond(400, [error |-> "missing arxiv_id"])
            ELSE call("get", [arxiv_id |-> unquote(arxiv_id)])
    ELSE respond(404, [error |-> "not found"])

\* What the handler sends once the executor has returned `result`.
reply(plan, result) ==
    CASE plan.executor = "recent" ->
             send(200, [category |-> plan.args.category, papers |-> result,
                        count |-> Len(result)])
      [] plan.executor = "author" ->
             send(200, [author_name |-> plan.args.author_name, papers |-> result,
                        count |-> Len(result)])
      [] plan.executor = "keyword" ->
             send(200, [keyword |-> plan.args.keyword, papers |-> result,
                        count |-> Len(result)])
      [] plan.executor = "daterange" ->
             send(200, [category |-> plan.args.category, start |-> plan.args.start_date,
                        end |-> plan.args.end_date, papers |-> result,
                        count |-> Len(result)])
      [] plan.executor = "get" ->
             IF result = NoneItem THEN send(404, [error |-> "not found"])
             ELSE send(200, result)

\* A slip: the handler answers a failure as if nothing had been found.
do_GET_except_as_empty(e) ==
    [response |-> send(200, [papers |-> <<>>, count |-> 0]), line |-> [status |-> 200]]

\* except Exception as e: the response and the log line.
do_GET_except(e) ==
    [response |-> send(500, [error |-> "server error"]),
     line |-> [status |-> 500, exception |-> e]]

\* The one table.query of a single-page executor.
single_page(plan, t, cap) ==
    CASE plan.executor = "recent" ->
             query_recent_in_category(t, plan.args.category, plan.args.limit, cap)
      [] plan.executor = "keyword" ->
             query_papers_by_keyword(t, plan.args.keyword, plan.args.limit, cap)
      [] plan.executor = "get" -> get_paper_by_id(t, plan.args.arxiv_id, cap)

\* One table.query of a paginating executor.
next_page(plan, t, esk, cap) ==
    CASE plan.executor = "author" -> author_page(t, plan.args.author_name, esk, cap)
      [] plan.executor = "daterange" ->
             date_range_page(t, plan.args.category, plan.args.start_date,
                             plan.args.end_date, esk, cap)

\* Limit=limit of a Query must be 1 or more: the store client raises before it sends.
limit_rejected(plan) == "limit" \in DOMAIN plan.args /\ plan.args.limit < 1

NoQuery == [category |-> NoneVal, limit |-> NoneVal, start |-> NoneVal, end |-> NoneVal]
Get(path, query) == [path |-> path, query |-> query]

LimitTwo == <<"2">>
LimitZero == <<"0">>
LimitNegative == <<"-","1">>
LimitWord == <<"a","b","c">>
LimitGrouped == <<"1","_","0">>
LimitAfterTab == <<Chr(9), "2">>               \* limit=%092
LimitArabic == <<Chr(1635)>>                    \* limit=%D9%A3, ARABIC-INDIC DIGIT THREE
\* limit=00...02 with MaxStrDigits digits, and with one digit more
LimitLongest == [i \in 1..MaxStrDigits |-> IF i = MaxStrDigits THEN "2" ELSE "0"]
LimitTooLong == <<"0">> \o LimitLongest
BobQuoted == <<"B","o","%","6","2">>
LineFeedQuoted == <<"%","0","A">>
EAcuteQuoted == <<"%","C","3","%","A","9">>
NetQuoted == <<"n","%","4","5","t">>

Requests ==
    {Get(PathRecent, [NoQuery EXCEPT !.category = c, !.limit = l]) :
        c \in {NoneVal, <<>>, CsLG, MathCO},
        l \in {NoneVal, <<>>, LimitTwo, LimitZero, LimitNegative, LimitWord, LimitGrouped,
              LimitAfterTab, LimitArabic, LimitLongest, LimitTooLong}}
    \cup {Get(PathAuthor \o a, NoQuery) :
            a \in {<<>>, Alice, Bob, BobQuoted, LineFeedQuoted, EAcuteQuoted}}
    \cup {Get(PathKeyword \o k, [NoQuery EXCEPT !.limit = l]) :
            k \in {<<>>, WNet, WNetCap, NetQuoted},
            l \in {NoneVal, LimitTwo, LimitZero, LimitWord, LimitAfterTab, LimitTooLong}}
    \cup {Get(PathSearch, [NoQuery EXCEPT !.category = c, !.start = s, !.end = e]) :
            c \in {NoneVal, CsLG}, s \in {NoneVal, Jan01}, e \in {NoneVal, Jan31, Feb01}}
    \cup {Get(PathPapers \o i, NoQuery) : i \in {<<>>, IdA, IdNever, BulkPaper(2).arxiv_id}}
    \cup {Get(<<"/">>, NoQuery), Get(<<"/","p","a","p","e","r">>, NoQuery)}

\* The tables the server is started on.
ApiCorpora == {<<>>, BulkCorpus} \cup [1..1 -> Pool]

InitApi ==
    /\ papers \in ApiCorpora
    /\ pc = "serve"
    /\ idx = 1
    /\ total_papers = 0
    /\ counts = ZeroCounts
    /\ all_items = <<>>
    /\ bi = 0
    /\ table = loaded_table(papers)
    /\ err = "none"
    /\ run = "first"
    /\ first_table = NoTable
    /\ batches = <<>>
    /\ report = NoReport
    /\ QueryIdle
    /\ KwOff
    /\ ApiOff

Handled(out) ==
    /\ resp' = out.response
    /\ log' = out.line
    /\ q' = [kind |-> "none"]
    /\ qpc' = "idle"
    /\ qitems' = <<>>
    /\ qlek' = NoKey

\* do_GET from the request to the response, or to the first query of an executor
\* that paginates.
do_GET ==
    /\ pc = "serve" /\ req = NoRequest
    /\ \E r \in Requests :
          \E plan \in {route(r)} :
              /\ req' = r
              /\ IF plan.act = "send"
                 THEN /\ Handled([response |-> plan.response,
                                  line |-> [status |-> plan.response.status]])
                      /\ UNCHANGED <<store_calls, qres>>
                 ELSE IF limit_rejected(plan)
                 THEN /\ Handled(do_GET_except("ParamValidationError"))
                      /\ UNCHANGED <<store_calls, qres>>
                 ELSE IF plan.executor \in {"author", "daterange"}
                 THEN /\ q' = plan
                      /\ qpc' = "paging"
                      /\ qitems' = <<>>
                      /\ qlek' = NoKey
                      /\ UNCHANGED <<resp, log, store_calls, qres>>
                 ELSE \/ /\ store_calls' = Append(store_calls, "ok")
                         /\ \E cap \in PageCaps(table) :
                               qres' = single_page(plan, table, cap)
                         /\ Handled([response |-> reply(plan, qres'),
                                     line |-> [status |-> reply(plan, qres').status]])
                      \/ /\ store_calls' = Append(store_calls, "error")
                         /\ Handled(do_GET_except("StoreError"))
                         /\ UNCHANGED qres
    /\ UNCHANGED <<loader_vars, kw_vars>>

\* One pass of the `while True` of _query_papers_by_author or
\* _query_papers_in_date_range, and what do_GET does when the loop ends or raises.
do_GET_page ==
    /\ pc = "serve" /\ qpc = "paging"
    /\ \/ \E cap \in PageCaps(table) :
             LET response == next_page(q, table, qlek, cap)
                 items == qitems \o response.Items
             IN  /\ store_calls' = Append(store_calls, "ok")
                 /\ IF response.LastEvaluatedKey = NoKey
                    THEN /\ qres' = items
                         /\ Handled([response |-> reply(q, items),
                                     line |-> [status |-> 200]])
                    ELSE /\ qitems' = items
                         /\ qlek' = response.LastEvaluatedKey
                         /\ UNCHANGED <<q, qpc, qres, resp, log>>
       \/ /\ store_calls' = Append(store_calls, "error")
          /\ Handled(do_GET_except("StoreError"))
          /\ UNCHANGED qres
    /\ UNCHANGED <<loader_vars, kw_vars, req>>

\* The response is out; the server takes the next request.
NextRequest ==
    /\ pc = "serve" /\ resp # NoResponse
    /\ req' = NoRequest
    /\ resp' = NoResponse
    /\ log' = NoLog
    /\ store_calls' = <<>>
    /\ qres' = <<>>
    /\ UNCHANGED <<loader_vars, kw_vars, q, qpc, qitems, qlek>>

NextApi == do_GET \/ do_GET_page \/ NextRequest

SpecApi == InitApi /\ [][NextApi]_vars

-----------------------------------------------------------------------------
(* Properties.                                                             *)

Rows == 1..Len(table)
\* The authors and the categories of a record, a null list read as the empty one.
AuthorsOf(p) == OrEmpty(p.authors)
CategoriesOf(p) == OrEmpty(p.categories)
RowSet(t) == {t[i] : i \in 1..Len(t)}
CorpusIds == {papers[j].arxiv_id : j \in 1..Len(papers)}

\* The published date of a stored item, read from its payload.
DateOf(it) ==
    IF it.published \in {NoneVal, <<>>, ZeroVal} THEN SentinelDate
    ELSE SubSeq(it.published, 1, 10)

\* The items appended by the step that projects papers[idx].
NewItems == SubSeq(all_items', Len(all_items) + 1, Len(all_items'))
OfType(items, type) == SelectSeq(items, LAMBDA it : it.item_type = type)
ProjectStep == pc = "project" /\ idx <= Len(papers) /\ idx' = idx + 1

\* C1: when a load has completed, the table holds exactly one PaperDetail row, with
\* PK = PAPER#<id> and SK = DETAIL, for every distinct arxiv_id of the corpus (and for
\* no other id), and no row of another variant carries GSI3PK or GSI3SK.
C1_OneDetailPerId ==
    pc = "done" =>
        /\ \A id \in CorpusIds :
              LET D == {i \in Rows : table[i].item_type = "PAPER_DETAIL"
                                     /\ table[i].arxiv_id = id}
              IN  /\ Cardinality(D) = 1
                  /\ \A i \in D : /\ table[i].PK = PfxPaper \o id
                                  /\ table[i].SK = Detail
                                  /\ table[i].GSI3PK = PfxPaper \o id
                                  /\ table[i].GSI3SK = Detail
        /\ \A i \in Rows :
              IF table[i].item_type = "PAPER_DETAIL"
              THEN table[i].arxiv_id \in CorpusIds
              ELSE "GSI3PK" \notin DOMAIN table[i] /\ "GSI3SK" \notin DOMAIN table[i]

\* A completed load of a corpus that lists one arxiv_id in two records with different
\* titles, with category rows in the table.
C1_Witness ==
    /\ pc = "done"
    /\ \E j, k \in 1..Len(papers) :
          /\ j < k
          /\ papers[j].arxiv_id = papers[k].arxiv_id
          /\ papers[j].title # papers[k].title
    /\ \E i \in Rows : table[i].item_type = "CATEGORY_ITEM"

\* The last record of the corpus with the given id: the one whose items overwrite the others.
LastRecord(id) ==
    papers[CHOOSE j \in 1..Len(papers) :
               /\ papers[j].arxiv_id = id
               /\ \A k \in (j + 1)..Len(papers) : papers[k].arxiv_id # id]

\* C2: after a completed load, get_paper_by_id(id) returns the PaperDetail item of id
\* with arxiv_id, title, authors, abstract, categories, keywords and published of the
\* loaded record if the corpus has a paper with that id, and None if it has none; it
\* never returns a category, author or keyword item.
C2_GetPaperById ==
    (pc = "done" /\ qpc = "done" /\ q.kind = "get") =>
        IF q.arxiv_id \in CorpusIds
        THEN LET p == LastRecord(q.arxiv_id)
             IN  /\ qres.item_type = "PAPER_DETAIL"
                 /\ qres.arxiv_id = q.arxiv_id
                 /\ qres.title = p.title
                 /\ qres.authors = AuthorsOf(p)
                 /\ qres.abstract = OrEmpty(p.abstract)
                 /\ qres.categories = CategoriesOf(p)
                 /\ qres.published = p.published
                 /\ qres.keywords = top_k_keywords_from_abstract(p.abstract, 10)
        ELSE qres = NoneItem

\* A lookup that found an id the corpus lists twice, the paper having category,
\* author and keyword rows of its own in the table.
C2_Witness ==
    /\ pc = "done" /\ qpc = "done" /\ q.kind = "get"
    /\ qres # NoneItem
    /\ Cardinality({j \in 1..Len(papers) : papers[j].arxiv_id = q.arxiv_id}) = 2
    /\ \A type \in {"CATEGORY_ITEM", "AUTHOR_ITEM", "KEYWORD_ITEM"} :
          \E i \in Rows : table[i].item_type = type /\ table[i].arxiv_id = q.arxiv_id

\* C3: the step that projects a paper with N category entries appends exactly N
\* CategoryItems, the n-th with PK = CATEGORY#<n-th entry> and
\* SK = <published_date>#<arxiv_id>, which ends in the paper's id.
C3_CategoryItems ==
    [][ProjectStep =>
          LET p == papers[idx]
              C == OfType(NewItems, "CATEGORY_ITEM")
          IN  /\ Len(C) = Len(CategoriesOf(p))
              /\ \A n \in 1..Len(C) :
                    /\ C[n].PK = PfxCategory \o CategoriesOf(p)[n]
                    /\ C[n].SK = published_date(p) \o Hash \o p.arxiv_id
                    /\ Len(published_date(p)) = 10
                    /\ SubSeq(C[n].SK, 12, Len(C[n].SK)) = p.arxiv_id
                    /\ C[n].arxiv_id = p.arxiv_id]_vars

\* A paper that lists one category twice has just been projected.
C3_Witness ==
    /\ pc = "project" /\ idx > 1
    /\ LET p == papers[idx - 1]
       IN  /\ Len(CategoriesOf(p)) = 2
           /\ CategoriesOf(p)[1] = CategoriesOf(p)[2]
    /\ Len(OfType(all_items, "CATEGORY_ITEM")) >= 2

\* C4: the step that projects a paper with M author entries appends exactly M
\* AuthorItems, the n-th keyed by the n-th name verbatim (PK = AUTHORITEM#<name>,
\* GSI1PK = AUTHOR#<name>), so names that differ, be it only in letter case, have
\* different author-index partitions.
C4_AuthorItems ==
    [][ProjectStep =>
          LET p == papers[idx]
              A == OfType(NewItems, "AUTHOR_ITEM")
          IN  /\ Len(A) = Len(AuthorsOf(p))
              /\ \A n \in 1..Len(A) :
                    /\ A[n].PK = PfxAuthorItem \o AuthorsOf(p)[n]
                    /\ A[n].GSI1PK = PfxAuthor \o AuthorsOf(p)[n]
                    /\ A[n].GSI1SK = published_date(p) \o Hash \o p.arxiv_id
              /\ \A n, m \in 1..Len(A) :
                    AuthorsOf(p)[n] # AuthorsOf(p)[m] => A[n].GSI1PK # A[m].GSI1PK]_vars

\* A paper whose two author names differ only in letter case has just been projected.
C4_Witness ==
    /\ pc = "project" /\ idx > 1
    /\ LET p == papers[idx - 1]
       IN  /\ Len(AuthorsOf(p)) = 2
           /\ AuthorsOf(p)[1] # AuthorsOf(p)[2]
           /\ lower(AuthorsOf(p)[1]) = lower(AuthorsOf(p)[2])
    /\ Len(OfType(all_items, "AUTHOR_ITEM")) >= 2

\* C5: no load ends on a duplicate key, and when a load has completed the table holds,
\* for every record of the corpus and every author name it lists (however often),
\* exactly one AuthorItem of that paper and date in the author's partition; an author's
\* partition holds as many rows as there are distinct papers (date and id) listing it.
C5_AuthorItemsDeduplicated ==
    /\ err # "ValidationException"
    /\ pc = "done" =>
          \A j \in 1..Len(papers) : \A n \in 1..Len(AuthorsOf(papers[j])) :
              LET p == papers[j]
                  au == AuthorsOf(p)[n]
                  Part == {i \in Rows : /\ table[i].item_type = "AUTHOR_ITEM"
                                        /\ table[i].GSI1PK = PfxAuthor \o au}
                  Mine == {i \in Part : /\ table[i].arxiv_id = p.arxiv_id
                                        /\ table[i].GSI1SK = date_id_key(p)}
                  Listing == {k \in 1..Len(papers) :
                                 \E m \in 1..Len(AuthorsOf(papers[k])) : AuthorsOf(papers[k])[m] = au}
              IN  /\ Cardinality(Mine) = 1
                  /\ Cardinality(Part) = Cardinality({date_id_key(papers[k]) : k \in Listing})

\* A completed load of a corpus with a paper that lists one author twice and another
\* paper, of another id, by the same author.
C5_Witness ==
    /\ pc = "done"
    /\ \E j, k \in 1..Len(papers) :
          /\ Len(AuthorsOf(papers[j])) = 2
          /\ AuthorsOf(papers[j])[1] = AuthorsOf(papers[j])[2]
          /\ papers[k].arxiv_id # papers[j].arxiv_id
          /\ \E m \in 1..Len(AuthorsOf(papers[k])) : AuthorsOf(papers[k])[m] = AuthorsOf(papers[j])[1]

\* C6: the step that projects a paper appends exactly one KeywordItem per distinct
\* keyword of the paper's keyword list (the list stored in its detail item), no two for
\* one keyword, each with GSI2PK = KW#<keyword lower-cased>.
C6_KeywordItems ==
    [][ProjectStep =>
          LET K == OfType(NewItems, "KEYWORD_ITEM")
              kws == NewItems[1].keywords
              KwSet == {kws[n] : n \in 1..Len(kws)}
              KwOf(it) == SubSeq(it.PK, Len(PfxKeywordItem) + 1, Len(it.PK))
          IN  /\ Len(K) = Cardinality(KwSet)
              /\ {KwOf(K[n]) : n \in 1..Len(K)} = KwSet
              /\ \A n, m \in 1..Len(K) : n # m => K[n].PK # K[m].PK
              /\ \A n \in 1..Len(K) :
                    /\ SubSeq(K[n].PK, 1, Len(PfxKeywordItem)) = PfxKeywordItem
                    /\ K[n].GSI2PK = PfxKw \o lower(KwOf(K[n]))]_vars

\* A paper whose abstract has capital letters, a stop word and one keyword twice has
\* just been projected.
C6_Witness ==
    /\ pc = "project" /\ idx > 1
    /\ LET p == papers[idx - 1]
       IN  /\ p.abstract # NoneVal
           /\ p.abstract # lower(p.abstract)
           /\ Len(OfType(project_paper(p), "KEYWORD_ITEM")) = 1
           /\ Len(findall_alpha(p.abstract, 1, <<>>, <<>>)) = 3
    /\ Len(OfType(all_items, "KEYWORD_ITEM")) >= 1

\* The abstract under SpecKw as tokenising sees it, and the places where w
\* stands in it as a whole run of letters.
KwText == lower(OrEmpty(kw_text))
Occ(w) ==
    {i \in 1..Len(KwText) :
        LET e == i + Len(w) - 1
        IN  /\ e <= Len(KwText)
            /\ SubSeq(KwText, i, e) = w
            /\ (i = 1 \/ ~IsAlpha(KwText[i - 1]))
            /\ (e = Len(KwText) \/ ~IsAlpha(KwText[e + 1]))}
MinOf(S) == CHOOSE x \in S : \A y \in S : x <= y

\* C7: top_k_keywords_from_abstract(text, k) returns at most k tokens, pairwise
\* distinct, each a run of lower-case letters of the lower-cased text, longer than 2
\* and no stop word, a more frequent token before a less frequent one and of two
\* equally frequent the one first seen first; empty or missing text gives the empty list.
C7_TopKKeywords ==
    kw_pc = "done" =>
        /\ Len(kw_out) <= kw_k
        /\ \A i \in 1..Len(kw_out) :
              /\ Len(kw_out[i]) > 2
              /\ \A c \in 1..Len(kw_out[i]) : IsLowerAlpha(kw_out[i][c])
              /\ kw_out[i] \notin STOPWORDS
              /\ Occ(kw_out[i]) # {}
        /\ \A i, j \in 1..Len(kw_out) :
              i < j =>
                  /\ kw_out[i] # kw_out[j]
                  /\ \/ Cardinality(Occ(kw_out[i])) > Cardinality(Occ(kw_out[j]))
                     \/ /\ Cardinality(Occ(kw_out[i])) = Cardinality(Occ(kw_out[j]))
                        /\ MinOf(Occ(kw_out[i])) < MinOf(Occ(kw_out[j]))
        /\ (kw_text = NoneVal \/ kw_text = <<>>) => kw_out = <<>>

\* An extraction with k = 2 from a text with capital letters and three distinct
\* keywords, the two returned being equally frequent.
C7_Witness ==
    /\ kw_pc = "done"
    /\ kw_k = 2
    /\ Len(kw_out) = 2
    /\ kw_text # NoneVal
    /\ kw_text # KwText
    /\ Cardinality(Occ(kw_out[1])) = Cardinality(Occ(kw_out[2]))
    /\ Len(Counter(tokenize(kw_text))) = 3

\* C8: no write ends on a duplicate key or leaves two rows with one (PK, SK), and when
\* a run of the loader has completed on the table that a completed run on the same
\* corpus had left, the table holds the same rows, and as many, as that run left.
C8_RerunIdempotent ==
    /\ err # "ValidationException"
    /\ \A i, j \in Rows : i < j => ~SameKey(table[i], table[j])
    /\ (pc = "done" /\ first_table # NoTable) =>
          /\ RowSet(table) = RowSet(first_table)
          /\ Len(table) = Len(first_table)

\* A run has completed after a completed one, on a corpus written in several batches
\* whose projection has more items than the table has rows.
C8_Witness ==
    /\ pc = "done"
    /\ run = "later"
    /\ first_table # NoTable
    /\ Len(table) > 25
    /\ Len(all_items) > Len(table)

\* C9: query_recent_in_category(category, limit) returns min(limit, rows of the
\* partition CATEGORY#<category>) items, 20 standing for a limit not given, all rows of
\* that partition, in descending sort-key order (later date first, within a date the
\* greater id first), and every row of the partition left out sorts below all of them.
C9_RecentInCategory ==
    (LoadEnded /\ qpc = "done" /\ q.kind = "recent") =>
        LET P == {i \in Rows : table[i].PK = PfxCategory \o q.category}
            cap == IF q.limit_given THEN q.limit ELSE 20
            R == 1..Len(qres)
        IN  /\ Len(qres) = Min(cap, Cardinality(P))
            /\ \A r \in R : \E i \in P : table[i] = qres[r]
            /\ \A r \in R : qres[r].item_type = "CATEGORY_ITEM"
            /\ \A r \in R : r < Len(qres) =>
                  /\ StrLess(qres[r + 1].SK, qres[r].SK)
                  /\ \/ StrLess(DateOf(qres[r + 1]), DateOf(qres[r]))
                     \/ /\ DateOf(qres[r + 1]) = DateOf(qres[r])
                        /\ StrLess(qres[r + 1].arxiv_id, qres[r].arxiv_id)
            /\ \A i \in P : (\A r \in R : table[i] # qres[r]) =>
                  \A r \in R : StrLess(table[i].SK, qres[r].SK)

\* C10: query_papers_in_date_range(category, start, end), start <= end, returns in
\* ascending sort-key order exactly the CategoryItems of the category whose published
\* date d has start <= d <= end: those of the end date whatever their id, none of a
\* later date and none of a date before start.
C10_DateRange ==
    (LoadEnded /\ qpc = "done" /\ q.kind = "daterange") =>
        LET S == {i \in Rows : /\ table[i].item_type = "CATEGORY_ITEM"
                               /\ table[i].PK = PfxCategory \o q.category
                               /\ StrLeq(q.start_date, DateOf(table[i]))
                               /\ StrLeq(DateOf(table[i]), q.end_date)}
        IN  /\ RowSet(qres) = {table[i] : i \in S}
            /\ Len(qres) = Cardinality(S)
            /\ \A r \in 1..Len(qres) : r < Len(qres) => StrLess(qres[r].SK, qres[r + 1].SK)

\* A range query that took several pages returned a paper of the end date whose id
\* starts with a letter, and left out a paper of the category published after the end.
C10_Witness ==
    /\ pc = "done" /\ qpc = "done" /\ q.kind = "daterange"
    /\ Len(qres) > MaxPage
    /\ \E r \in 1..Len(qres) :
          DateOf(qres[r]) = q.end_date /\ IsAlpha(qres[r].arxiv_id[1])
    /\ \E i \in Rows : /\ table[i].PK = PfxCategory \o q.category
                       /\ StrLess(q.end_date, DateOf(table[i]))

\* b is a letter-casing of a: the same letters, each in its upper or its lower case.
Casing(a, b) ==
    /\ Len(a) = Len(b)
    /\ \A i \in 1..Len(a) : LowerChar(a[i]) = LowerChar(b[i])

\* C11: query_papers_by_keyword(k, limit) returns min(limit, rows) items, 20 standing
\* for a limit not given, of the KeywordItems whose GSI2PK is KW#<k lower-cased>, each
\* with the projected attributes of its row, in descending GSI2SK order, the rows left
\* out sorting below them; and every other letter-casing of k, sent to the same store,
\* returns the same list.
C11_KeywordCaseInsensitive ==
    (LoadEnded /\ qpc = "done" /\ q.kind = "keyword") =>
        LET P == {i \in Rows : /\ table[i].item_type = "KEYWORD_ITEM"
                               /\ table[i].GSI2PK = PfxKw \o lower(q.keyword)}
            cap == IF q.limit_given THEN q.limit ELSE 20
            R == 1..Len(qres)
        IN  /\ Len(qres) = Min(cap, Cardinality(P))
            /\ \A r \in R : \E i \in P :
                  /\ qres[r].GSI2SK = table[i].GSI2SK
                  /\ qres[r].PK = table[i].PK
                  /\ qres[r].arxiv_id = table[i].arxiv_id
                  /\ qres[r].title = table[i].title
                  /\ qres[r].categories = table[i].categories
                  /\ qres[r].published = table[i].published
            /\ \A r \in R : r < Len(qres) => StrLess(qres[r + 1].GSI2SK, qres[r].GSI2SK)
            /\ \A i \in P : (\A r \in R : table[i].GSI2SK # qres[r].GSI2SK) =>
                  \A r \in R : StrLess(table[i].GSI2SK, qres[r].GSI2SK)
            /\ \A k \in QKeywords :
                  Casing(k, q.keyword) =>
                      \A c \in PageCaps(table) :
                         query_papers_by_keyword(table, k, q.limit, c)
                            = query_papers_by_keyword(table, q.keyword, q.limit, c)

\* C12: every page query_papers_by_author receives extends the items gathered so far
\* by rows of the partition AUTHOR#<author>, the whole strictly descending in GSI1SK
\* (so none is repeated) and every row not yet gathered sorting below them (so none
\* is skipped); a page with a continuation token brings at least one item, the token
\* names the last of them and the loop goes on; a page without one ends the loop, and
\* the result is then the whole partition.
C12_AuthorPagination ==
    [][(q.kind = "author" /\ qpc = "paging" /\ qpc' \in {"paging", "done"}
        /\ <<qitems, qlek, qpc>>' # <<qitems, qlek, qpc>>) =>
          LET P == {i \in Rows : /\ table[i].item_type = "AUTHOR_ITEM"
                                 /\ table[i].GSI1PK = PfxAuthor \o q.author_name}
              got == qitems'
              R == 1..Len(got)
          IN  /\ q' = q
              /\ Len(got) >= Len(qitems)
              /\ SubSeq(got, 1, Len(qitems)) = qitems
              /\ \A r \in R : \E i \in P :
                    /\ got[r].GSI1SK = table[i].GSI1SK
                    /\ got[r].arxiv_id = table[i].arxiv_id
                    /\ got[r].title = table[i].title
                    /\ got[r].categories = table[i].categories
                    /\ got[r].published = table[i].published
              /\ \A r \in R : r < Len(got) => StrLess(got[r + 1].GSI1SK, got[r].GSI1SK)
              /\ \A i \in P : (\A r \in R : table[i].GSI1SK # got[r].GSI1SK) =>
                    \A r \in R : StrLess(table[i].GSI1SK, got[r].GSI1SK)
              /\ qlek' # NoKey =>
                    /\ qpc' = "paging"
                    /\ Len(got) > Len(qitems)
                    /\ qlek'.sk = got[Len(got)].GSI1SK
              /\ qlek' = NoKey =>
                    /\ qpc' = "done"
                    /\ qres' = got
                    /\ Len(got) = Cardinality(P)]_vars

\* An author query has returned a partition that took more than two pages.
C12_Witness ==
    /\ pc = "done" /\ qpc = "done" /\ q.kind = "author"
    /\ Len(qres) > 2 * MaxPage
    /\ Len(qres) = Cardinality({i \in Rows : /\ table[i].item_type = "AUTHOR_ITEM"
                                             /\ table[i].GSI1PK = PfxAuthor \o q.author_name})

\* What follows the route prefix in the path of the request in hand.
Segment(prefix) == SubSeq(req.path, Len(prefix) + 1, Len(req.path))

\* A limit parameter that is given and is not a whole number of 1 or more.
BadLimit == ~Falsy(req.query.limit) /\ ~(int(req.query.limit).ok /\ int(req.query.limit).value >= 1)

\* The request in hand lacks a required parameter or carries a malformed one.
Malformed ==
    \/ req.path = PathRecent /\ (Falsy(req.query.category) \/ BadLimit)
    \/ startswith(req.path, PathAuthor) /\ Segment(PathAuthor) = <<>>
    \/ startswith(req.path, PathKeyword) /\ (Segment(PathKeyword) = <<>> \/ BadLimit)
    \/ req.path = PathSearch
          /\ (Falsy(req.query.category) \/ Falsy(req.query.start) \/ Falsy(req.query.end))

\* C13: a GET request that lacks a required parameter or carries a malformed one (no
\* category on /papers/recent, a limit that is not a valid limit on /papers/recent or
\* /papers/keyword/<kw>, an empty author or keyword segment, a missing category, start
\* or end on /papers/search) is answered 400 with an error body, and no query has been
\* sent to the store for it.
C13_BadRequest400 ==
    (pc = "serve" /\ resp # NoResponse /\ Malformed) =>
        /\ resp.status = 400
        /\ "error" \in DOMAIN resp.payload
        /\ store_calls = <<>>

\* C14: when a table.query sent for a request has failed, on the first page or a later
\* one, the response is 500 with the body {"error": "server error"} and nothing else,
\* the exception is named in the log line only, and the executor has returned nothing;
\* a response that is not 500 was built from queries that all succeeded.
C14_StoreFailure500 ==
    (pc = "serve" /\ resp # NoResponse) =>
        /\ (\E n \in 1..Len(store_calls) : store_calls[n] = "error") =>
              /\ resp.status = 500
              /\ resp.payload = [error |-> "server error"]
              /\ log = [status |-> 500, exception |-> "StoreError"]
              /\ qres = <<>>
        /\ resp.status # 500 =>
              \A n \in 1..Len(store_calls) : store_calls[n] = "ok"

\* A paginated request whose third or later query failed has been answered 500.
C14_Witness ==
    /\ pc = "serve"
    /\ resp.status = 500
    /\ Len(store_calls) >= 3
    /\ store_calls[Len(store_calls)] = "error"
    /\ store_calls[1] = "ok"

\* C15: when the load of a corpus into an empty table has completed, the summary's
\* total of derived items is the sum of its four per-variant counts and is the number
\* of rows the table holds, and the denormalization factor it prints is that total
\* divided by the number of source records (to one decimal; 0 for an empty corpus).
C15_SummaryCountsWritten ==
    (pc = "done" /\ run = "first") =>
        /\ report.kind = "summary"
        /\ report.total_papers = Len(papers)
        /\ report.total_items = report.paper_detail_items + report.category_items
                                + report.author_items + report.keyword_items
        /\ report.total_items = Len(table)
        /\ IF Len(papers) = 0 THEN report.denorm_factor = 0
           ELSE \E tenths \in 0..(10 * Len(table) + 1) :
                   /\ report.denorm_factor = tenths
                   /\ 2 * Len(papers) * tenths <= 20 * Len(table) + Len(papers)
                   /\ 20 * Len(table) - Len(papers) <= 2 * Len(papers) * tenths

\* The last of the first n projected items that has the primary key of item j.
LastWithKey(n, j) ==
    all_items[CHOOSE k \in 1..n :
                 /\ SameKey(all_items[k], all_items[j])
                 /\ \A m \in (k + 1)..n : ~SameKey(all_items[m], all_items[j])]

\* C16: while the batch loop runs and when it has ended, the slices handed to put_batch
\* so far have 1 to 25 items each and, put end to end, are the first i projected items
\* in input order; every one of those items is in the table already (as the row of its
\* key, unless a later one of them has replaced it), so a batch is submitted only when
\* the one before is written; and when the loop has ended i covers all projected items.
C16_BatchesInOrder ==
    (pc \in {"write", "done"}) =>
        LET n == Min(bi, Len(all_items))
            stored == {table[i] : i \in Rows}
        IN  /\ \A b \in 1..Len(batches) : Len(batches[b]) \in 1..25
            /\ \A b \in 1..(Len(batches) - 1) : Len(batches[b]) = 25
            /\ Concat(batches) = SubSeq(all_items, 1, n)
            /\ \A j \in 1..n :
                  \/ all_items[j] \in stored
                  \/ \E m \in (j + 1)..n : SameKey(all_items[m], all_items[j])
            /\ pc = "done" => n = Len(all_items)

\* A load of more than two batches, the last one short, has completed; some projected
\* items had the key of another.
C16_Witness ==
    /\ pc = "done"
    /\ Len(batches) >= 3
    /\ Len(batches[Len(batches)]) < 25
    /\ Len(all_items) > Len(table)

\* C17: when a batch write has failed the run has ended with a report that names the
\* failed batch, by the paper indices it covered or by the index of the last batch
\* committed, and every item of the batches committed before it is still in the table
\* as it was written.
C17_FailedBatchReported ==
    (pc = "failed" /\ err = "StoreError") =>
        /\ report.kind # "none"
        /\ \E field \in DOMAIN report : field \in {"paper_indices", "last_committed_batch"}
        /\ \A j \in 1..bi : \E i \in Rows : table[i] = LastWithKey(bi, j)

\* C18: a step changes the table only in the batch loop, when the projection loop has
\* gone through every paper and all_items holds the items of all of them; no step of
\* the projection loop, and no failure in it, changes the table.
C18_ProjectThenWrite ==
    [][/\ table' # table =>
             /\ pc = "write"
             /\ idx = Len(papers) + 1
             /\ total_papers = Len(papers)
             /\ all_items = all_items_of(papers)
             /\ all_items' = all_items
       /\ (pc = "project" \/ pc' = "project") => table' = table]_vars

\* The first batch of a corpus of several papers has just been written.
C18_Witness ==
    /\ pc = "write"
    /\ run = "first"
    /\ bi = BatchSize
    /\ Len(table) = BatchSize
    /\ Len(papers) > 2
    /\ Len(all_items) > BatchSize

\* Row i of the table has the detail row of its arxiv_id in the table.
HasDetail(i) ==
    \E d \in Rows : /\ table[d].item_type = "PAPER_DETAIL"
                     /\ table[d].arxiv_id = table[i].arxiv_id
                     /\ table[d].PK = PfxPaper \o table[i].arxiv_id

\* Every category, author or keyword row of the table has the detail row of its
\* arxiv_id in the table.
DetailPresent == \A i \in Rows : table[i].item_type # "PAPER_DETAIL" => HasDetail(i)

\* C19 as stated: at every batch boundary of a load into an empty table, the one at
\* which the load stops on a failed batch included, every CategoryItem, AuthorItem
\* and KeywordItem in the table has the PaperDetail of its arxiv_id in the table.
C19_DetailPresentAlways == run = "first" => DetailPresent

\* The places in all_items of the batch at which the load has stopped, if it has
\* stopped at a batch that failed.
FailedBatch ==
    IF pc = "failed" /\ err = "StoreError"
    THEN (bi + 1)..Min(bi + BatchSize, Len(all_items))
    ELSE {}

\* The batch that submits the item at place j of all_items.
BatchOf(j) == (j - 1) \div BatchSize + 1

\* C19, amended: the same at every batch boundary, the one at which the load stops on
\* a failed batch included, except for the items of the failed batch whose paper has
\* its PaperDetail in that same batch; and the PaperDetail of a paper is submitted in
\* the same batch as, or an earlier batch than, each of its other items.
C19_DetailPresentButInFailedBatch ==
    run = "first" =>
        /\ \A i \in Rows :
              table[i].item_type # "PAPER_DETAIL" =>
                  \/ HasDetail(i)
                  \/ \E j, d \in FailedBatch :
                        /\ all_items[j] = table[i]
                        /\ all_items[d].item_type = "PAPER_DETAIL"
                        /\ all_items[d].arxiv_id = table[i].arxiv_id
        /\ \A j \in 1..Len(all_items) :
              all_items[j].item_type # "PAPER_DETAIL" =>
                  \E d \in 1..Len(all_items) :
                      /\ all_items[d].item_type = "PAPER_DETAIL"
                      /\ all_items[d].arxiv_id = all_items[j].arxiv_id
                      /\ BatchOf(d) <= BatchOf(j)

\* The load has stopped at its second batch, which failed with a part of it applied:
\* an item of the failed batch is in the table, and the detail item of its paper was
\* the last item of the first batch.
C19_Witness ==
    /\ pc = "failed" /\ err = "StoreError" /\ run = "first"
    /\ bi = BatchSize
    /\ all_items[BatchSize].item_type = "PAPER_DETAIL"
    /\ \E i \in Rows, j \in FailedBatch :
          /\ table[i] = all_items[j]
          /\ table[i].item_type # "PAPER_DETAIL"
          /\ table[i].arxiv_id = all_items[BatchSize].arxiv_id
    /\ \E j \in FailedBatch : \A i \in Rows : table[i] # all_items[j]

====
